---- MODULE Spec2Model ----
(***************************************************************************)
(* Model of RingBuffer<T> (src/RingBuffer.hpp): a single-producer /        *)
(* single-consumer ring buffer over a double ("mirror") mapping, with two  *)
(* atomic position counters, per-side cached counters and a timed          *)
(* condition-variable rendezvous.                                          *)
(*                                                                         *)
(* Two threads use one buffer: "cons" calls read_at_least, "prod" calls    *)
(* write_at_least.  Every access to shared state (an atomic load, a        *)
(* fetch_add, a lock acquisition, a wait, a notify) is its own step, so    *)
(* TLC explores every interleaving of the two calls.  A third thread may   *)
(* run clear() (specification SpecClear only).                             *)
(*                                                                         *)
(* size_t is modelled with WordBits bits: every size_t operation is taken  *)
(* modulo 2^WordBits, as the unsigned arithmetic of the code wraps.        *)
(*                                                                         *)
(* The module also models the driver that the repository wraps around the  *)
(* device library: the stream handoff between readStream and rx_callback   *)
(* (src/Streaming.cpp, specification SpecStream) and the cached settings   *)
(* of the settings API (src/src/Settings.cpp, specification SpecSettings). *)
(***************************************************************************)
EXTENDS Integers, Naturals, Sequences, FiniteSets, TLC

\* log2 of the capacity passed to the constructor (capacity is a power of two)
CapBits == 1

\* capacity_ (RingBuffer.hpp:25, set by the constructor at line 258)
capacity_ == 2 ^ CapBits

\* width of size_t in the model: one bit more than the capacity needs, so
\* that the counters overflow within a few transfers
WordBits == CapBits + 1

\* size_t values are 0 .. SizeMax - 1
SizeMax == 2 ^ WordBits

SizeT == 0 .. (SizeMax - 1)

\* unsigned addition and subtraction of size_t
Add(a, b) == (a + b) % SizeMax

\* a subtraction that stops at 0 instead of wrapping
Sub_saturating(a, b) == IF a >= b THEN a - b ELSE 0

Sub(a, b) == ((a - b) + SizeMax) % SizeMax

\* bitwise and of two naturals
RECURSIVE BitAnd(_, _)
BitAnd(a, b) ==
    IF a = 0 \/ b = 0 THEN 0
    ELSE (a % 2) * (b % 2) + 2 * BitAnd(a \div 2, b \div 2)

\* mask without the "- 1"
mask_noMinusOne(val) == BitAnd(capacity_, val)

\* mask that lets every bit through
mask_allBits(val) == val

\* RingBuffer::mask
mask(val) == BitAnd(Sub(capacity_, 1), val)

\* The double mapping of map_mirror: element offsets i and i + capacity_ of
\* the 2 * capacity_ range are the same storage.
Mirror(i) == IF i < capacity_ THEN i ELSE i - capacity_

Threads == {"cons", "prod"}

\* the minimum element counts the callers ask for: none, one, the whole
\* buffer, and more than the buffer holds
Requests == {0, 1, capacity_, capacity_ + 1}

\* the timeout sentinel of read_at_least / write_at_least
TimedOut == -1

VARIABLES
    read_pos_,          \* std::atomic<size_t> read_pos_
    write_pos_,         \* std::atomic<size_t> write_pos_
    read_pos_cached_,   \* consumer side
    write_pos_cached_,  \* producer side
    available_cached_,  \* consumer side
    free_cached_,       \* producer side
    lock_,              \* owner of std::mutex lock_, or "none"
    cond_,              \* the threads blocked in cond_.wait_for
    buffer_,            \* the capacity_ elements of the memory object
    pc,                 \* where each thread is inside its call
    elements,           \* argument `elements` of the current / last call
    avail,              \* local `avail` (read) / `free` (write)
    done,               \* local `consumed` / `produced`
    expired,            \* the timeout of the current wait_for has passed
    ret,                \* value returned by the last call
    clr,                \* where the thread running clear() is
    \* history variables (not program state)
    start,              \* the caller's own counter when the current call began
    cbCalls,            \* callback invocations of the current / last call
    offered,            \* count passed to the callback of the current call
    offeredAt,          \* element index of the pointer passed to the callback
    quiet,              \* the call found nothing to transfer when it began and
                        \* the peer has committed nothing since
    path,               \* how the current call got its count: "cached" / "fresh"
                        \* on the fast path, "slow" after taking the lock
    nextVal,            \* next value the producer callback writes
    expVal,             \* next value the consumer callback should read
    fifoOk,             \* every element read so far was the expected one
    inFlight,           \* elements produced minus elements consumed
    sinceClear          \* "clean" from a clear() until the producer's next
                        \* callback, "first" from that callback to its commit

\* The construction and destruction of the object (map_mirror, unmap_mirror)
VARIABLES
    ctor,               \* how far the constructor / destructor has come
    capacity,           \* argument `capacity` of the constructor
    sizeofT,            \* sizeof(T)
    size,               \* argument `size` of map_mirror
    mem_fd,             \* the memfd: "none" or "open"
    fileLen,            \* length of the memory object in bytes
    vmap,               \* the address range from `buffer` on: per byte
                        \* Unmapped, Reserved, or the byte of the memory
                        \* object that is mapped there
    memory,             \* the bytes of the memory object
    thrown              \* the step whose failure was thrown, or "none"

ctorVars == <<ctor, capacity, sizeofT, size, mem_fd, fileLen, vmap, memory,
              thrown>>

\* The stream handoff of the driver (src/Streaming.cpp): readStream publishes
\* the caller's buffer in bufferPtr_, rx_callback fills it
VARIABLES
    bufferPtr_,         \* void *bufferPtr_: nullptr or the published buffer
    bufferLock_,        \* owner of std::mutex bufferLock_, or "none"
    bufferReady_,       \* the threads blocked in bufferReady_.wait_for
    callbackDone_,      \* the threads blocked in callbackDone_.wait_for
    streaming,          \* airspyhf_is_streaming(dev_)
    spc,                \* where each thread of the driver is inside its call
    buffs0,             \* argument buffs[0] of the current readStream call
    flags,              \* argument `flags` of each thread's current call
    numElems,           \* argument `numElems` of the current readStream call
    sexpired,           \* the timeout of the thread's wait_for has passed
    sret,               \* value returned by each thread's last call
    crashed,            \* the process has ended in a write through nullptr
    \* history variables (not program state)
    fills,              \* conversions into the buffer since readStream last
                        \* published one
    stopped             \* deactivateStream has stopped the device and
                        \* returned 0, and nobody has started it since

\* The cached settings of the driver (src/src/Settings.cpp)
VARIABLES
    sampleRate_,        \* uint32_t sampleRate_
    centerFrequency_,   \* uint32_t centerFrequency_
    enableDSP_,         \* bool enableDSP_
    agcEnabled_,        \* bool agcEnabled_
    lnaGain_,           \* double lnaGain_
    hfAttenuation_,     \* double hfAttenuation_
    frequencyCorrection_, \* double frequencyCorrection_ (ppb)
    iqBalance_,         \* std::complex<double> iqBalance_
    lastOp              \* history: the last call, what the getters returned
                        \* before it and the device calls it made

streamVars == <<bufferPtr_, bufferLock_, bufferReady_, callbackDone_,
                streaming, spc, buffs0, flags, numElems, sexpired, sret,
                crashed, fills, stopped>>

settingsVars == <<sampleRate_, centerFrequency_, enableDSP_, agcEnabled_,
                  lnaGain_, hfAttenuation_, frequencyCorrection_, iqBalance_,
                  lastOp>>

driverVars == <<streamVars, settingsVars>>

engineVars == <<read_pos_, write_pos_, read_pos_cached_, write_pos_cached_,
          available_cached_, free_cached_, lock_, cond_, buffer_, pc,
          elements, avail, done, expired, ret, clr, start, cbCalls, offered,
          offeredAt, quiet, path, nextVal, expVal, fifoOk, inFlight,
          sinceClear>>

vars == <<engineVars, ctorVars, driverVars>>

rbVars == <<read_pos_, write_pos_, read_pos_cached_, write_pos_cached_,
            available_cached_, free_cached_>>

hist == <<start, cbCalls, offered, offeredAt, quiet, path, nextVal, expVal,
          fifoOk, inFlight, sinceClear>>

\* Member initialisers of lines 27-33, a zeroed buffer (memset of
\* map_mirror), nobody inside a call.
Members ==
    /\ read_pos_ = 0
    /\ write_pos_ = 0
    /\ read_pos_cached_ = 0
    /\ write_pos_cached_ = 0
    /\ available_cached_ = 0
    /\ free_cached_ = 0
    /\ lock_ = "none"
    /\ cond_ = {}
    /\ buffer_ = [i \in 0 .. (capacity_ - 1) |-> 0]
    /\ pc = [t \in Threads |-> "idle"]
    /\ elements = [t \in Threads |-> 0]
    /\ avail = [t \in Threads |-> 0]
    /\ done = [t \in Threads |-> 0]
    /\ expired = [t \in Threads |-> FALSE]
    /\ ret = [t \in Threads |-> 0]
    /\ clr = "idle"
    /\ start = [t \in Threads |-> 0]
    /\ cbCalls = [t \in Threads |-> 0]
    /\ offered = [t \in Threads |-> 0]
    /\ offeredAt = [t \in Threads |-> 0]
    /\ quiet = [t \in Threads |-> FALSE]
    /\ path = [t \in Threads |-> "none"]
    /\ nextVal = 0
    /\ expVal = 0
    /\ fifoOk = TRUE
    /\ inFlight = 0
    /\ sinceClear = "no"

\* the threads of the driver: the caller of readStream, the thread of the
\* device library that calls rx_callback, and the thread that calls
\* activateStream and deactivateStream
StreamThreads == {"reader", "callback", "control"}

\* the threads that wait on a condition variable
Waiters == {"reader", "callback"}

nullptr == 0

\* the buffers a caller may hand to readStream
Buffers == {1, 2}

\* getStreamMTU(stream): airspyhf_get_output_size(dev_)
getStreamMTU == 2

\* the values tried for `flags` and `numElems`
FlagValues == {0, 1}

ElemCounts == {getStreamMTU - 1, getStreamMTU}

SOAPY_SDR_TIMEOUT == -1

SOAPY_SDR_STREAM_ERROR == -2

SOAPY_SDR_NOT_SUPPORTED == -5

\* The stream handoff before the first call: no buffer published, the device
\* not streaming
StreamMembers ==
    /\ bufferPtr_ = nullptr
    /\ bufferLock_ = "none"
    /\ bufferReady_ = {}
    /\ callbackDone_ = {}
    /\ streaming = FALSE
    /\ spc = [t \in StreamThreads |-> "idle"]
    /\ buffs0 = nullptr
    /\ flags = [t \in StreamThreads |-> 0]
    /\ numElems = 0
    /\ sexpired = [t \in Waiters |-> FALSE]
    /\ sret = [t \in StreamThreads |-> 0]
    /\ crashed = FALSE
    /\ fills = 0
    /\ stopped = FALSE

\* the arguments tried for the settings calls.  The doubles `frequency` and
\* `rate` are counted in halves (3 is 1.5), the correction `value` (ppm) in
\* halves of a ppb; gains are whole numbers of dB; a complex balance is the
\* pair of its parts.
\* the (direction, channel) pairs: the supported one and two others
Targets == {<<"RX", 0>>, <<"TX", 0>>, <<"RX", 1>>}

GainNames == {"LNA", "HF_ATT", "IF"}

GainValues == {0, 6}

Balances == {<<0, 0>>, <<1, 0>>}

Corrections == {0, 1}

FrequencyNames == {"RF", "BB"}

Frequencies == {0, 3}

Rates == {3, 4}

Keys == {"dsp", "bias"}

Values == {"true", "false"}

\* no call of the settings API has been made
NoOp ==
    [op |-> "none", dir |-> "RX", chan |-> 0, name |-> "", value |-> 0,
     ok |-> TRUE, calls |-> <<>>, before |-> 0, pre |-> <<>>, out |-> ""]

\* the sample rates the device offers, rates.front() being the smallest
SampleRates == {1, 2}

\* lines 33-36 and 102: the member initialisers of the driver and the
\* default sample rate
SettingsMembers ==
    /\ sampleRate_ = (CHOOSE r \in SampleRates : \A q \in SampleRates : r <= q)
    /\ centerFrequency_ = 0
    /\ enableDSP_ = TRUE
    /\ agcEnabled_ = TRUE
    /\ lnaGain_ = 0
    /\ hfAttenuation_ = 0
    /\ frequencyCorrection_ = 0
    /\ iqBalance_ = <<0, 0>>
    /\ lastOp = NoOp

\* the driver right after its construction
Driver == StreamMembers /\ SettingsMembers


(***************************************************************************)
(* Construction: RingBuffer(capacity) calls map_mirror(capacity *          *)
(* sizeof(T)).  Sizes and addresses are size_t values of CtorBits bits;    *)
(* addresses are byte offsets from the address the reservation returned.   *)
(***************************************************************************)

CtorBits == WordBits + 2

CtorMax == 2 ^ CtorBits

\* getpagesize()
PageSize == 2

\* the element sizes sizeof(T) the template is instantiated with
ElemSizes == {1, 2}

\* the values of a byte
Bytes == {0, 1}

Addresses == 0 .. (CtorMax - 1)

Unmapped == -2

\* PROT_NONE anonymous reservation
Reserved == -1

\* unsigned multiplication of size_t
Mul(a, b) == (a * b) % CtorMax

\* RingBuffer::is_power_of_two
is_power_of_two(val) ==
    (val # 0) /\ (BitAnd(val, (val + CtorMax - 1) % CtorMax) = 0)

\* a mapping whose file offset is the address instead of 0
MapShared_offsetIsAddress(m, at, len) ==
    [a \in Addresses |-> IF at <= a /\ a < at + len THEN a ELSE m[a]]

\* mmap(at, len, MAP_SHARED | MAP_FIXED, mem_fd, 0): the len bytes from `at`
\* now show bytes 0 .. len - 1 of the memory object
MapShared(m, at, len) ==
    [a \in Addresses |-> IF at <= a /\ a < at + len THEN a - at ELSE m[a]]

\* mmap(NULL, len, PROT_NONE, MAP_ANONYMOUS | MAP_PRIVATE): len bytes of
\* address space from `buffer` on
MapAnonymous(m, len) ==
    [a \in Addresses |-> IF a < len THEN Reserved ELSE m[a]]

\* munmap(addr, len)
Munmap(m, len) ==
    [a \in Addresses |-> IF a < len THEN Unmapped ELSE m[a]]

\* the constructor has not been called
NotConstructed ==
    /\ ctor = "new"
    /\ capacity = 0
    /\ sizeofT = 1
    /\ size = 0
    /\ mem_fd = "none"
    /\ fileLen = 0
    /\ vmap = [a \in Addresses |-> Unmapped]
    /\ memory = [a \in Addresses |-> 0]
    /\ thrown = "none"

\* RingBuffer<T>(capacity_) with sizeof(T) = 1 has been constructed
Constructed ==
    /\ ctor = "built"
    /\ capacity = capacity_
    /\ sizeofT = 1
    /\ size = capacity_
    /\ mem_fd = "open"
    /\ fileLen = capacity_
    /\ vmap = MapShared(MapShared(MapAnonymous([a \in Addresses |-> Unmapped],
                                                2 * capacity_),
                                   0, capacity_),
                         capacity_, capacity_)
    /\ memory = [a \in Addresses |-> 0]
    /\ thrown = "none"

\* State after construction
Init == Members /\ Constructed /\ Driver

\* State before the constructor runs
InitCtor == Members /\ NotConstructed /\ Driver

\* a failure that is noted but does not end the construction
Throw_goesOn(what) ==
    /\ ctor' = ctor
    /\ thrown' = what

\* throw std::runtime_error(...)
Throw(what) ==
    /\ ctor' = "thrown"
    /\ thrown' = what

\* line 257-258: the member initialiser evaluates capacity * sizeof(T)
RingBuffer(c, s) ==
    /\ ctor = "new"
    /\ capacity' = c
    /\ sizeofT' = s
    /\ size' = Mul(c, s)
    /\ ctor' = "validate"
    /\ UNCHANGED <<mem_fd, fileLen, vmap, memory, thrown, engineVars,
                   driverVars>>

\* lines 55-66
map_mirror_validate ==
    /\ ctor = "validate"
    /\ IF size < PageSize THEN Throw("pagesize")
       ELSE IF ~is_power_of_two(size) THEN Throw("power")
       ELSE ctor' = "memfd" /\ thrown' = thrown
    /\ UNCHANGED <<capacity, sizeofT, size, mem_fd, fileLen, vmap, memory,
                   engineVars,
                   driverVars>>

\* lines 70-75: memfd_create succeeds or returns -1
map_mirror_memfd ==
    /\ ctor = "memfd"
    /\ \/ mem_fd' = "open" /\ ctor' = "ftruncate" /\ thrown' = thrown
       \/ mem_fd' = mem_fd /\ Throw("memfd")
    /\ UNCHANGED <<capacity, sizeofT, size, fileLen, vmap, memory, engineVars,
                   driverVars>>

\* lines 78-82: ftruncate succeeds or returns -1
map_mirror_ftruncate ==
    /\ ctor = "ftruncate"
    /\ \/ fileLen' = size /\ ctor' = "reserve" /\ thrown' = thrown
       \/ fileLen' = fileLen /\ Throw("ftruncate")
    /\ UNCHANGED <<capacity, sizeofT, size, mem_fd, vmap, memory, engineVars,
                   driverVars>>

\* lines 85-90: the reservation of 2 * size bytes; a length of 0 is refused
map_mirror_reserve ==
    /\ ctor = "reserve"
    /\ \/ /\ Mul(2, size) # 0
          /\ vmap' = MapAnonymous(vmap, Mul(2, size))
          /\ ctor' = "first"
          /\ thrown' = thrown
       \/ vmap' = vmap /\ Throw("mmap")
    /\ UNCHANGED <<capacity, sizeofT, size, mem_fd, fileLen, memory, engineVars,
                   driverVars>>

\* lines 93-100: the memory object over the first half
map_mirror_first ==
    /\ ctor = "first"
    /\ \/ vmap' = MapShared(vmap, 0, size) /\ ctor' = "second"
             /\ thrown' = thrown
       \/ vmap' = vmap /\ Throw("mmap1")
    /\ UNCHANGED <<capacity, sizeofT, size, mem_fd, fileLen, memory, engineVars,
                   driverVars>>

\* lines 105-113: the memory object over the second half
map_mirror_second ==
    /\ ctor = "second"
    /\ \/ vmap' = MapShared(vmap, size, size) /\ ctor' = "memset"
             /\ thrown' = thrown
       \/ vmap' = vmap /\ Throw("mmap2")
    /\ UNCHANGED <<capacity, sizeofT, size, mem_fd, fileLen, memory, engineVars,
                   driverVars>>

\* lines 116-119 and 258: memset(buffer, 0, size); buffer_ and capacity_ are
\* set and the object exists
map_mirror_return ==
    /\ ctor = "memset"
    /\ memory' = [b \in Addresses |->
                    IF \E a \in 0 .. (size - 1) : vmap[a] = b THEN 0
                    ELSE memory[b]]
    /\ ctor' = "built"
    /\ UNCHANGED <<capacity, sizeofT, size, mem_fd, fileLen, vmap, thrown,
                   engineVars,
                   driverVars>>

\* the byte read through address a of the mapping
Load(a) == memory[vmap[a]]

\* a byte stored through address a of the mapping
Store(a, b) ==
    /\ ctor = "built"
    /\ vmap[a] >= 0
    /\ memory' = [memory EXCEPT ![vmap[a]] = b]
    /\ UNCHANGED <<ctor, capacity, sizeofT, size, mem_fd, fileLen, vmap,
                   thrown, engineVars,
                   driverVars>>

\* lines 40-46 and 260: ~RingBuffer calls unmap_mirror(buffer_, capacity_ *
\* sizeof(T)), one munmap of 2 * size bytes
unmap_mirror ==
    /\ ctor = "built"
    /\ vmap' = Munmap(vmap, Mul(2, Mul(capacity, sizeofT)))
    /\ ctor' = "destroyed"
    /\ UNCHANGED <<capacity, sizeofT, size, mem_fd, fileLen, memory, thrown,
                   engineVars,
                   driverVars>>

map_mirror ==
    \/ map_mirror_validate
    \/ map_mirror_memfd
    \/ map_mirror_ftruncate
    \/ map_mirror_reserve
    \/ map_mirror_first
    \/ map_mirror_second
    \/ map_mirror_return

NextCtor ==
    \/ \E c \in Addresses, s \in ElemSizes : RingBuffer(c, s)
    \/ map_mirror
    \/ \E a \in Addresses, b \in Bytes : Store(a, b)
    \/ unmap_mirror

\* The life of one RingBuffer object, from the constructor call on
SpecCtor == InitCtor /\ [][NextCtor]_vars


(***************************************************************************)
(* The index / availability engine                                         *)
(***************************************************************************)

\* available() whose reload takes the buffer to be full
available_assumesFull(required) ==
    IF available_cached_ < required THEN capacity_ ELSE available_cached_

\* available() that never reloads write_pos_
available_noReload(required) == available_cached_

\* RingBuffer::available(required): the value it returns, which is also the
\* new available_cached_ (the cache is reloaded only when it is too small)
available(required) ==
    IF available_cached_ < required
    THEN Sub(write_pos_, read_pos_cached_)
    ELSE available_cached_

\* free_to_write() whose reload forgets how much of the buffer is in use
free_to_write_ignoresFill(required) ==
    IF free_cached_ < required THEN capacity_ ELSE free_cached_

\* free_to_write() whose reload subtracts the two positions the wrong way round
free_to_write_swapped(required) ==
    IF free_cached_ < required
    THEN Sub(capacity_, Sub(read_pos_, write_pos_cached_))
    ELSE free_cached_

\* RingBuffer::free_to_write(required): the value it returns, which is also
\* the new free_cached_
free_to_write(required) ==
    IF free_cached_ < required
    THEN Sub(capacity_, Sub(write_pos_cached_, read_pos_))
    ELSE free_cached_

\* RingBuffer::read_ptr / write_ptr as element offsets from buffer_
read_ptr == mask(read_pos_cached_)

write_ptr == mask(write_pos_cached_)

\* consume() that forgets to advance read_pos_cached_
consume_noCachedPos(n) ==
    /\ available_cached_' = Sub(available_cached_, n)
    /\ read_pos_cached_' = read_pos_cached_
    /\ read_pos_' = Add(read_pos_, n)

\* RingBuffer::consume without its notify_one (a step of its own below)
consume(n) ==
    /\ available_cached_' = Sub(available_cached_, n)
    /\ read_pos_cached_' = Add(read_pos_cached_, n)
    /\ read_pos_' = Add(read_pos_, n)

\* produce() that goes on to its notify without having advanced write_pos_
produce_notPublished(n) ==
    /\ free_cached_' = Sub(free_cached_, n)
    /\ write_pos_cached_' = Add(write_pos_cached_, n)
    /\ write_pos_' = write_pos_

\* produce() that publishes one element more than it was given
produce_oneTooMany(n) ==
    /\ free_cached_' = Sub(free_cached_, n)
    /\ write_pos_cached_' = Add(write_pos_cached_, n)
    /\ write_pos_' = Add(write_pos_, n + 1)

\* RingBuffer::produce without its notify_one
produce(n) ==
    /\ free_cached_' = Sub(free_cached_, n)
    /\ write_pos_cached_' = Add(write_pos_cached_, n)
    /\ write_pos_' = Add(write_pos_, n)

\* a mutex that anybody can take at any time
Unlocked_always == TRUE

\* std::mutex lock_ can be acquired: nobody holds it
Unlocked == lock_ = "none"

\* cond_.notify_one() by thread self, which then goes to `to`: one blocked
\* thread, if there is any, leaves the wait and has to take the lock again
NotifyOne(self, to) ==
    IF cond_ = {}
    THEN /\ pc' = [pc EXCEPT ![self] = to]
         /\ UNCHANGED cond_
    ELSE \E w \in cond_ :
            /\ cond_' = cond_ \ {w}
            /\ pc' = [pc EXCEPT ![self] = to, ![w] = "reacq"]

\* a first check that wants more than was asked for
AfterCheck_strict(count, required) ==
    IF count > required THEN "cb" ELSE "lock"

\* a first check that sends a call with nothing to transfer to the wait
AfterCheck_needsSome(count, required) ==
    IF count >= required /\ count > 0 THEN "cb" ELSE "lock"

\* a first check that lets any count through to the callback
AfterCheck_anyCount(count, required) == "cb"

\* a call that takes the lock whatever its first check found
AfterCheck_alwaysLock(count, required) == "lock"

\* where the call goes after its first availability check (lines 203, 233)
AfterCheck(count, required) == IF count >= required THEN "cb" ELSE "lock"

\* a wait_for whose timeout is ignored
AfterPred_noTimeout(count, required, timeup) ==
    IF count >= required THEN "cb" ELSE "towait"

\* a wait_for that gives up at the deadline without a last look at the
\* predicate
AfterPred_timeoutFirst(count, required, timeup) ==
    IF timeup THEN "timeout"
    ELSE IF count >= required THEN "cb" ELSE "towait"

\* a predicate that is content with a whole buffer when more was asked for
AfterPred_clamped(count, required, timeup) ==
    IF count >= required \/ count = capacity_ THEN "cb"
    ELSE IF timeup THEN "timeout" ELSE "towait"

\* a wait whose timeout leads to the callback
AfterPred_callbackOnTimeout(count, required, timeup) ==
    IF count >= required \/ timeup THEN "cb" ELSE "towait"

\* a predicate that asks for any data instead of the requested amount
AfterPred_nonEmpty(count, required, timeup) ==
    IF count >= 1 THEN "cb"
    ELSE IF timeup THEN "timeout" ELSE "towait"

\* where wait_for goes after evaluating its predicate (lines 213-216): the
\* callback when it holds, the timeout return when the time is up, the wait
\* otherwise
AfterPred(count, required, timeup) ==
    IF count >= required THEN "cb"
    ELSE IF timeup THEN "timeout" ELSE "towait"

\* the counts a callback may report: it stays within what it was offered
Reports(count) == 0 .. count

(***************************************************************************)
(* read_at_least, run by the consumer thread                               *)
(***************************************************************************)

\* the call begins.  lines 201-203: auto avail = available(elements); if (avail >= elements)
R_Call(n) ==
    /\ pc["cons"] = "idle"
    /\ clr = "idle"
    /\ elements' = [elements EXCEPT !["cons"] = n]
    /\ start' = [start EXCEPT !["cons"] = read_pos_]
    /\ quiet' = [quiet EXCEPT !["cons"] = (Sub(write_pos_, read_pos_) = 0)]
    /\ LET a == available(n) IN
        /\ available_cached_' = a
        /\ avail' = [avail EXCEPT !["cons"] = a]
        /\ pc' = [pc EXCEPT !["cons"] = AfterCheck(a, n)]
        /\ path' = [path EXCEPT !["cons"] =
                      IF a < n THEN "slow"
                      ELSE IF available_cached_ < n THEN "fresh" ELSE "cached"]
    /\ UNCHANGED <<read_pos_, write_pos_, read_pos_cached_, write_pos_cached_,
                   free_cached_, lock_, cond_, buffer_, done, expired, ret, clr,
                   cbCalls, offered, offeredAt, nextVal, expVal, fifoOk,
                   inFlight, sinceClear>>
    /\ UNCHANGED <<ctorVars, driverVars>>

\* line 211: std::unique_lock<std::mutex> lock(lock_)
R_Lock ==
    /\ pc["cons"] = "lock"
    /\ Unlocked
    /\ lock_' = "cons"
    /\ pc' = [pc EXCEPT !["cons"] = "pred"]
    /\ UNCHANGED <<rbVars, cond_, buffer_, elements, avail, done, expired,
                   ret, clr, hist>>
    /\ UNCHANGED <<ctorVars, driverVars>>

\* lines 213-216: wait_for evaluates its predicate, holding the lock
R_Pred ==
    /\ pc["cons"] = "pred"
    /\ LET a == available(elements["cons"]) IN
        /\ available_cached_' = a
        /\ avail' = [avail EXCEPT !["cons"] = a]
        /\ pc' = [pc EXCEPT !["cons"] =
                    AfterPred(a, elements["cons"], expired["cons"])]
    /\ UNCHANGED <<read_pos_, write_pos_, read_pos_cached_, write_pos_cached_,
                   free_cached_, lock_, cond_, buffer_, elements, done,
                   expired, ret, clr, hist>>
    /\ UNCHANGED <<ctorVars, driverVars>>

\* wait_for blocks: the lock is released and the thread joins the waiters
\* of cond_ in one atomic step
R_Wait ==
    /\ pc["cons"] = "towait"
    /\ lock_' = "none"
    /\ cond_' = cond_ \cup {"cons"}
    /\ pc' = [pc EXCEPT !["cons"] = "wait"]
    /\ UNCHANGED <<rbVars, buffer_, elements, avail, done, expired, ret, clr,
                   hist>>
    /\ UNCHANGED <<ctorVars, driverVars>>

\* a spurious wakeup
R_Spurious ==
    /\ pc["cons"] = "wait"
    /\ cond_' = cond_ \ {"cons"}
    /\ pc' = [pc EXCEPT !["cons"] = "reacq"]
    /\ UNCHANGED <<rbVars, lock_, buffer_, elements, avail, done, expired,
                   ret, clr, hist>>
    /\ UNCHANGED <<ctorVars, driverVars>>

\* the timeout of wait_for passes while the thread is blocked
R_Expire ==
    /\ pc["cons"] = "wait"
    /\ cond_' = cond_ \ {"cons"}
    /\ expired' = [expired EXCEPT !["cons"] = TRUE]
    /\ pc' = [pc EXCEPT !["cons"] = "reacq"]
    /\ UNCHANGED <<rbVars, lock_, buffer_, elements, avail, done, ret, clr,
                   hist>>
    /\ UNCHANGED <<ctorVars, driverVars>>

\* the woken thread takes the lock again before wait_for goes on
R_Reacquire ==
    /\ pc["cons"] = "reacq"
    /\ Unlocked
    /\ lock_' = "cons"
    /\ pc' = [pc EXCEPT !["cons"] = "pred"]
    /\ UNCHANGED <<rbVars, cond_, buffer_, elements, avail, done, expired,
                   ret, clr, hist>>
    /\ UNCHANGED <<ctorVars, driverVars>>

\* lines 221-224: wait_for returned false; return -1 and release the lock
R_TimedOut ==
    /\ pc["cons"] = "timeout"
    /\ ret' = [ret EXCEPT !["cons"] = TimedOut]
    /\ lock_' = "none"
    /\ pc' = [pc EXCEPT !["cons"] = "ret"]
    /\ UNCHANGED <<rbVars, cond_, buffer_, elements, avail, done, expired,
                   clr, hist>>
    /\ UNCHANGED <<ctorVars, driverVars>>

\* lines 205, 218: consumed = callback(read_ptr(), avail).  The callback
\* reads the c elements it reports from the span it was given.
R_Callback(c) ==
    /\ pc["cons"] = "cb"
    /\ c \in Reports(avail["cons"])
    /\ done' = [done EXCEPT !["cons"] = c]
    /\ cbCalls' = [cbCalls EXCEPT !["cons"] = @ + 1]
    /\ offered' = [offered EXCEPT !["cons"] = avail["cons"]]
    /\ offeredAt' = [offeredAt EXCEPT !["cons"] = read_ptr]
    /\ fifoOk' = (fifoOk /\ \A i \in 0 .. (c - 1) :
                     buffer_[Mirror(read_ptr + i)] = (expVal + i) % SizeMax)
    /\ expVal' = (expVal + c) % SizeMax
    /\ pc' = [pc EXCEPT !["cons"] = "commit"]
    /\ UNCHANGED <<rbVars, lock_, cond_, buffer_, elements, avail, expired,
                   ret, clr, start, quiet, path, nextVal, inFlight,
                   sinceClear>>
    /\ UNCHANGED <<ctorVars, driverVars>>

\* lines 206, 219: consume(consumed), up to its fetch_add
R_Consume ==
    /\ pc["cons"] = "commit"
    /\ consume(done["cons"])
    /\ inFlight' = inFlight - done["cons"]
    /\ quiet' = [quiet EXCEPT !["prod"] = @ /\ done["cons"] = 0]
    /\ pc' = [pc EXCEPT !["cons"] = "notify"]
    /\ UNCHANGED <<write_pos_, write_pos_cached_, free_cached_, lock_, cond_,
                   buffer_, elements, avail, done, expired, ret, clr, start,
                   cbCalls, offered, offeredAt, path, nextVal, expVal, fifoOk,
                   sinceClear>>
    /\ UNCHANGED <<ctorVars, driverVars>>

\* line 151 and lines 207, 220: cond_.notify_one(), then return consumed
\* (the unique_lock of the slow path is released on return)
R_Return ==
    /\ pc["cons"] = "notify"
    /\ NotifyOne("cons", "ret")
    /\ ret' = [ret EXCEPT !["cons"] = done["cons"]]
    /\ lock_' = IF lock_ = "cons" THEN "none" ELSE lock_
    /\ UNCHANGED <<rbVars, buffer_, elements, avail, done, expired, clr,
                   hist>>
    /\ UNCHANGED <<ctorVars, driverVars>>

\* the caller has the result; the locals of the call are gone
R_Done ==
    /\ pc["cons"] = "ret"
    /\ pc' = [pc EXCEPT !["cons"] = "idle"]
    /\ elements' = [elements EXCEPT !["cons"] = 0]
    /\ avail' = [avail EXCEPT !["cons"] = 0]
    /\ done' = [done EXCEPT !["cons"] = 0]
    /\ expired' = [expired EXCEPT !["cons"] = FALSE]
    /\ ret' = [ret EXCEPT !["cons"] = 0]
    /\ start' = [start EXCEPT !["cons"] = 0]
    /\ cbCalls' = [cbCalls EXCEPT !["cons"] = 0]
    /\ offered' = [offered EXCEPT !["cons"] = 0]
    /\ offeredAt' = [offeredAt EXCEPT !["cons"] = 0]
    /\ path' = [path EXCEPT !["cons"] = "none"]
    /\ quiet' = [quiet EXCEPT !["cons"] = FALSE]
    /\ UNCHANGED <<rbVars, lock_, cond_, buffer_, clr, nextVal, expVal,
                   fifoOk, inFlight, sinceClear>>
    /\ UNCHANGED <<ctorVars, driverVars>>

(***************************************************************************)
(* write_at_least, run by the producer thread                              *)
(***************************************************************************)

\* the call begins.  lines 231-233: auto free = free_to_write(elements); if (free >= elements)
W_Call(n) ==
    /\ pc["prod"] = "idle"
    /\ clr = "idle"
    /\ elements' = [elements EXCEPT !["prod"] = n]
    /\ start' = [start EXCEPT !["prod"] = write_pos_]
    /\ quiet' = [quiet EXCEPT !["prod"] = (Sub(write_pos_, read_pos_) = capacity_)]
    /\ LET a == free_to_write(n) IN
        /\ free_cached_' = a
        /\ avail' = [avail EXCEPT !["prod"] = a]
        /\ pc' = [pc EXCEPT !["prod"] = AfterCheck(a, n)]
        /\ path' = [path EXCEPT !["prod"] =
                      IF a < n THEN "slow"
                      ELSE IF free_cached_ < n THEN "fresh" ELSE "cached"]
    /\ UNCHANGED <<read_pos_, write_pos_, read_pos_cached_, write_pos_cached_,
                   available_cached_, lock_, cond_, buffer_, done, expired, ret, clr,
                   cbCalls, offered, offeredAt, nextVal, expVal, fifoOk,
                   inFlight, sinceClear>>
    /\ UNCHANGED <<ctorVars, driverVars>>

\* line 241: std::unique_lock<std::mutex> lock(lock_)
W_Lock ==
    /\ pc["prod"] = "lock"
    /\ Unlocked
    /\ lock_' = "prod"
    /\ pc' = [pc EXCEPT !["prod"] = "pred"]
    /\ UNCHANGED <<rbVars, cond_, buffer_, elements, avail, done, expired,
                   ret, clr, hist>>
    /\ UNCHANGED <<ctorVars, driverVars>>

\* lines 243-246: wait_for evaluates its predicate, holding the lock
W_Pred ==
    /\ pc["prod"] = "pred"
    /\ LET a == free_to_write(elements["prod"]) IN
        /\ free_cached_' = a
        /\ avail' = [avail EXCEPT !["prod"] = a]
        /\ pc' = [pc EXCEPT !["prod"] =
                    AfterPred(a, elements["prod"], expired["prod"])]
    /\ UNCHANGED <<read_pos_, write_pos_, read_pos_cached_, write_pos_cached_,
                   available_cached_, lock_, cond_, buffer_, elements, done,
                   expired, ret, clr, hist>>
    /\ UNCHANGED <<ctorVars, driverVars>>

\* wait_for blocks: the lock is released and the thread joins the waiters
\* of cond_ in one atomic step
W_Wait ==
    /\ pc["prod"] = "towait"
    /\ lock_' = "none"
    /\ cond_' = cond_ \cup {"prod"}
    /\ pc' = [pc EXCEPT !["prod"] = "wait"]
    /\ UNCHANGED <<rbVars, buffer_, elements, avail, done, expired, ret, clr,
                   hist>>
    /\ UNCHANGED <<ctorVars, driverVars>>

\* a spurious wakeup
W_Spurious ==
    /\ pc["prod"] = "wait"
    /\ cond_' = cond_ \ {"prod"}
    /\ pc' = [pc EXCEPT !["prod"] = "reacq"]
    /\ UNCHANGED <<rbVars, lock_, buffer_, elements, avail, done, expired,
                   ret, clr, hist>>
    /\ UNCHANGED <<ctorVars, driverVars>>

\* the timeout of wait_for passes while the thread is blocked
W_Expire ==
    /\ pc["prod"] = "wait"
    /\ cond_' = cond_ \ {"prod"}
    /\ expired' = [expired EXCEPT !["prod"] = TRUE]
    /\ pc' = [pc EXCEPT !["prod"] = "reacq"]
    /\ UNCHANGED <<rbVars, lock_, buffer_, elements, avail, done, ret, clr,
                   hist>>
    /\ UNCHANGED <<ctorVars, driverVars>>

\* the woken thread takes the lock again before wait_for goes on
W_Reacquire ==
    /\ pc["prod"] = "reacq"
    /\ Unlocked
    /\ lock_' = "prod"
    /\ pc' = [pc EXCEPT !["prod"] = "pred"]
    /\ UNCHANGED <<rbVars, cond_, buffer_, elements, avail, done, expired,
                   ret, clr, hist>>
    /\ UNCHANGED <<ctorVars, driverVars>>

\* lines 251-254: wait_for returned false; return -1 and release the lock
W_TimedOut ==
    /\ pc["prod"] = "timeout"
    /\ ret' = [ret EXCEPT !["prod"] = TimedOut]
    /\ lock_' = "none"
    /\ pc' = [pc EXCEPT !["prod"] = "ret"]
    /\ UNCHANGED <<rbVars, cond_, buffer_, elements, avail, done, expired,
                   clr, hist>>
    /\ UNCHANGED <<ctorVars, driverVars>>

\* lines 235, 248: produced = callback(write_ptr(), free).  The callback
\* writes the c elements it reports into the span it was given: the next c
\* values of the sequence 0, 1, 2, ...
W_Callback(c) ==
    /\ pc["prod"] = "cb"
    /\ c \in Reports(avail["prod"])
    /\ done' = [done EXCEPT !["prod"] = c]
    /\ cbCalls' = [cbCalls EXCEPT !["prod"] = @ + 1]
    /\ offered' = [offered EXCEPT !["prod"] = avail["prod"]]
    /\ offeredAt' = [offeredAt EXCEPT !["prod"] = write_ptr]
    /\ buffer_' = [k \in DOMAIN buffer_ |->
                     IF \E i \in 0 .. (c - 1) : Mirror(write_ptr + i) = k
                     THEN LET i == CHOOSE j \in 0 .. (c - 1) :
                                         Mirror(write_ptr + j) = k
                          IN  (nextVal + i) % SizeMax
                     ELSE buffer_[k]]
    /\ nextVal' = (nextVal + c) % SizeMax
    /\ sinceClear' = IF sinceClear = "clean" THEN "first" ELSE "no"
    /\ pc' = [pc EXCEPT !["prod"] = "commit"]
    /\ UNCHANGED <<rbVars, lock_, cond_, elements, avail, expired, ret, clr,
                   start, quiet, path, expVal, fifoOk, inFlight>>
    /\ UNCHANGED <<ctorVars, driverVars>>

\* lines 236, 249: produce(produced), up to its fetch_add
W_Produce ==
    /\ pc["prod"] = "commit"
    /\ produce(done["prod"])
    /\ inFlight' = inFlight + done["prod"]
    /\ quiet' = [quiet EXCEPT !["cons"] = @ /\ done["prod"] = 0]
    /\ sinceClear' = "no"
    /\ pc' = [pc EXCEPT !["prod"] = "notify"]
    /\ UNCHANGED <<read_pos_, read_pos_cached_, available_cached_, lock_,
                   cond_, buffer_, elements, avail, done, expired, ret, clr,
                   start, cbCalls, offered, offeredAt, path, nextVal, expVal,
                   fifoOk>>
    /\ UNCHANGED <<ctorVars, driverVars>>

\* line 141 and lines 237, 250: cond_.notify_one(), then return produced
\* (the unique_lock of the slow path is released on return)
W_Return ==
    /\ pc["prod"] = "notify"
    /\ NotifyOne("prod", "ret")
    /\ ret' = [ret EXCEPT !["prod"] = done["prod"]]
    /\ lock_' = IF lock_ = "prod" THEN "none" ELSE lock_
    /\ UNCHANGED <<rbVars, buffer_, elements, avail, done, expired, clr,
                   hist>>
    /\ UNCHANGED <<ctorVars, driverVars>>


\* the caller has the result; the locals of the call are gone
W_Done ==
    /\ pc["prod"] = "ret"
    /\ pc' = [pc EXCEPT !["prod"] = "idle"]
    /\ elements' = [elements EXCEPT !["prod"] = 0]
    /\ avail' = [avail EXCEPT !["prod"] = 0]
    /\ done' = [done EXCEPT !["prod"] = 0]
    /\ expired' = [expired EXCEPT !["prod"] = FALSE]
    /\ ret' = [ret EXCEPT !["prod"] = 0]
    /\ start' = [start EXCEPT !["prod"] = 0]
    /\ cbCalls' = [cbCalls EXCEPT !["prod"] = 0]
    /\ offered' = [offered EXCEPT !["prod"] = 0]
    /\ offeredAt' = [offeredAt EXCEPT !["prod"] = 0]
    /\ path' = [path EXCEPT !["prod"] = "none"]
    /\ quiet' = [quiet EXCEPT !["prod"] = FALSE]
    /\ UNCHANGED <<rbVars, lock_, cond_, buffer_, clr, nextVal, expVal,
                   fifoOk, inFlight, sinceClear>>
    /\ UNCHANGED <<ctorVars, driverVars>>

(***************************************************************************)
(* The two threads, each calling again and again                           *)
(***************************************************************************)

\* the steps of a call from its callback to its return
R_Finish == (\E c \in 0 .. SizeMax : R_Callback(c)) \/ R_Consume \/ R_Return

W_Finish == (\E c \in 0 .. SizeMax : W_Callback(c)) \/ W_Produce \/ W_Return

Consumer ==
    \/ \E n \in Requests : R_Call(n)
    \/ R_Lock
    \/ R_Pred
    \/ R_Wait
    \/ R_Spurious
    \/ R_Expire
    \/ R_Reacquire
    \/ R_TimedOut
    \/ \E c \in 0 .. SizeMax : R_Callback(c)
    \/ R_Consume
    \/ R_Return
    \/ R_Done

Producer ==
    \/ \E n \in Requests : W_Call(n)
    \/ W_Lock
    \/ W_Pred
    \/ W_Wait
    \/ W_Spurious
    \/ W_Expire
    \/ W_Reacquire
    \/ W_TimedOut
    \/ \E c \in 0 .. SizeMax : W_Callback(c)
    \/ W_Produce
    \/ W_Return
    \/ W_Done

Next == Consumer \/ Producer

\* One producer and one consumer, no clear()
Spec == Init /\ [][Next]_vars

(***************************************************************************)
(* clear(), run by a third thread.  clear() stores to the cached counters  *)
(* of both sides without any synchronisation with the fast paths, so it    *)
(* "must only be invoked when neither side is actively mid-transfer": it   *)
(* begins only while no thread is between its unlocked availability check  *)
(* and its return, and no call begins while clear() is running.  Threads   *)
(* blocked in the wait or on the lock are allowed.                         *)
(***************************************************************************)

\* clear() without the store to read_pos_cached_
clear_keepsCachedPos ==
    /\ available_cached_' = 0
    /\ free_cached_' = capacity_
    /\ read_pos_cached_' = read_pos_cached_
    /\ write_pos_cached_' = 0
    /\ read_pos_' = 0
    /\ write_pos_' = 0

\* clear() without the store to free_cached_
clear_keepsFree ==
    /\ available_cached_' = 0
    /\ free_cached_' = free_cached_
    /\ read_pos_cached_' = 0
    /\ write_pos_cached_' = 0
    /\ read_pos_' = 0
    /\ write_pos_' = 0

\* the six stores of lines 185-190
clear ==
    /\ available_cached_' = 0
    /\ free_cached_' = capacity_
    /\ read_pos_cached_' = 0
    /\ write_pos_cached_' = 0
    /\ read_pos_' = 0
    /\ write_pos_' = 0

\* line 184: std::unique_lock<std::mutex> lock(lock_)
C_Lock ==
    /\ clr = "idle"
    /\ Unlocked
    /\ \A t \in Threads : pc[t] \notin {"cb", "commit", "notify"}
    /\ lock_' = "clear"
    /\ clr' = "locked"
    /\ UNCHANGED <<rbVars, cond_, buffer_, pc, elements, avail, done, expired,
                   ret, hist>>
    /\ UNCHANGED <<ctorVars, driverVars>>

\* lines 185-190.  The elements that were in the buffer are dropped, the
\* sequence of values starts again, and a call that is waiting now has
\* counter 0 as its starting point.
C_Reset ==
    /\ clr = "locked"
    /\ clear
    /\ clr' = "reset"
    /\ inFlight' = 0
    /\ nextVal' = 0
    /\ expVal' = 0
    /\ start' = [t \in Threads |-> 0]
    /\ quiet' = [t \in Threads |-> FALSE]
    /\ sinceClear' = "clean"
    /\ UNCHANGED <<lock_, cond_, buffer_, pc, elements, avail, done, expired,
                   ret, cbCalls, offered, offeredAt, path, fifoOk>>
    /\ UNCHANGED <<ctorVars, driverVars>>

\* a clear() that wakes nobody
NotifyAll_nobody ==
    /\ cond_' = cond_
    /\ pc' = pc

\* cond_.notify_all(): every blocked thread leaves the wait and has to take
\* the lock again
NotifyAll ==
    /\ cond_' = {}
    /\ pc' = [t \in Threads |-> IF t \in cond_ THEN "reacq" ELSE pc[t]]

\* lines 193-194: cond_.notify_all(), then the lock is released
C_Notify ==
    /\ clr = "reset"
    /\ NotifyAll
    /\ lock_' = "none"
    /\ clr' = "idle"
    /\ UNCHANGED <<rbVars, buffer_, elements, avail, done, expired, ret,
                   hist>>
    /\ UNCHANGED <<ctorVars, driverVars>>

Clear == C_Lock \/ C_Reset \/ C_Notify

NextClear == Consumer \/ Producer \/ Clear

\* One producer, one consumer and a thread that calls clear()
SpecClear == Init /\ [][NextClear]_vars

(***************************************************************************)
(* Scheduling.  Each thread is an operating-system thread that keeps       *)
(* running: a step it can take is eventually taken (callbacks terminate),  *)
(* and a thread that asks for lock_ over and over gets it at some point.   *)
(* wait_for waits until a deadline fixed when the wait began, so however   *)
(* often the thread is woken and blocks again, the timeout passes at some  *)
(* point of the waiting.  Nobody is obliged to begin a call, and spurious  *)
(* wakeups need not happen.                                                *)
(***************************************************************************)

ConsumerRuns ==
    /\ SF_vars(R_Lock \/ R_Reacquire \/ R_Pred \/ R_Wait \/ R_TimedOut \/ R_Finish)
    /\ SF_vars(R_Expire)

ProducerRuns ==
    /\ SF_vars(W_Lock \/ W_Reacquire \/ W_Pred \/ W_Wait \/ W_TimedOut \/ W_Finish)
    /\ SF_vars(W_Expire)

\* a clear() that has the lock runs to its end
ClearRuns == WF_vars(C_Reset) /\ WF_vars(C_Notify)

LiveSpec == Spec /\ ConsumerRuns /\ ProducerRuns

LiveSpecClear == SpecClear /\ ConsumerRuns /\ ProducerRuns /\ ClearRuns


(***************************************************************************)
(* The stream handoff (src/Streaming.cpp).  readStream, called by the      *)
(* "reader" thread, publishes the caller's buffer in bufferPtr_ and waits  *)
(* on callbackDone_; rx_callback, called by the thread of the device       *)
(* library for every transfer while the device streams, waits on           *)
(* bufferReady_ for a buffer, converts the transfer into it and resets     *)
(* bufferPtr_.  A "control" thread calls activateStream and                *)
(* deactivateStream.  airspyhf_start / airspyhf_stop / airspyhf_is_        *)
(* streaming are calls into the device library: a successful start makes   *)
(* is_streaming true, a successful stop makes it false, and either call    *)
(* may fail.                                                               *)
(***************************************************************************)

\* the variables outside the stream handoff
offStream == <<engineVars, ctorVars, settingsVars>>

\* thread t is at place p of its call, in a process that still runs
At(t, p) == ~crashed /\ spc[t] = p

\* a guard that lets a short buffer through
ArgCheck_noSizeCheck(f, n) ==
    IF f # 0 THEN "unsupported" ELSE "go"

\* lines 226-233: the argument guards of readStream
ArgCheck(f, n) ==
    IF f # 0 THEN "unsupported"
    ELSE IF n < getStreamMTU THEN "short" ELSE "go"

\* lines 243-252: where callbackDone_.wait_for goes after evaluating its
\* predicate: on when it holds, to the timeout return when the time is up,
\* to the wait otherwise
ReaderPred(timeup) ==
    IF bufferPtr_ = nullptr \/ ~streaming THEN "check"
    ELSE IF timeup THEN "timeout" ELSE "towait"

\* lines 103-112: the same for bufferReady_.wait_for in rx_callback
CallbackPred(timeup) ==
    IF bufferPtr_ # nullptr \/ ~streaming THEN "check"
    ELSE IF timeup THEN "timeout" ELSE "towait"

\* std::mutex bufferLock_ can be acquired
BufferUnlocked == bufferLock_ = "none"

\* readStream(stream, buffs, numElems, flags, timeNs, timeoutUs) begins.
\* lines 226-233: if (flags != 0) return SOAPY_SDR_NOT_SUPPORTED;
\* if (numElems < getStreamMTU(stream)) return 0
RS_Call(b, f, n) ==
    /\ At("reader", "idle")
    /\ buffs0' = b
    /\ flags' = [flags EXCEPT !["reader"] = f]
    /\ numElems' = n
    /\ LET c == ArgCheck(f, n) IN
        /\ spc' = [spc EXCEPT !["reader"] = IF c = "go" THEN "lock" ELSE "ret"]
        /\ sret' = [sret EXCEPT !["reader"] =
                      IF c = "unsupported" THEN SOAPY_SDR_NOT_SUPPORTED
                      ELSE 0]
    /\ UNCHANGED <<bufferPtr_, bufferLock_, bufferReady_, callbackDone_,
                   streaming, sexpired, crashed, fills, stopped>>
    /\ UNCHANGED offStream

\* line 235: std::unique_lock<std::mutex> lock(bufferLock_)
RS_Lock ==
    /\ At("reader", "lock")
    /\ BufferUnlocked
    /\ bufferLock_' = "reader"
    /\ spc' = [spc EXCEPT !["reader"] = "publish"]
    /\ UNCHANGED <<bufferPtr_, bufferReady_, callbackDone_, streaming, buffs0,
                   flags, numElems, sexpired, sret, crashed, fills, stopped>>
    /\ UNCHANGED offStream

\* lines 237-239: bufferPtr_ = buffs[0]; bufferReady_.notify_one()
RS_Publish ==
    /\ At("reader", "publish")
    /\ bufferPtr_' = buffs0
    /\ fills' = 0
    /\ IF "callback" \in bufferReady_
       THEN /\ bufferReady_' = bufferReady_ \ {"callback"}
            /\ spc' = [spc EXCEPT !["reader"] = "pred", !["callback"] = "reacq"]
       ELSE /\ spc' = [spc EXCEPT !["reader"] = "pred"]
            /\ UNCHANGED bufferReady_
    /\ UNCHANGED <<bufferLock_, callbackDone_, streaming, buffs0, flags,
                   numElems, sexpired, sret, crashed, stopped>>
    /\ UNCHANGED offStream

\* lines 243-246: callbackDone_.wait_for evaluates its predicate, holding
\* the lock
RS_Pred ==
    /\ At("reader", "pred")
    /\ spc' = [spc EXCEPT !["reader"] = ReaderPred(sexpired["reader"])]
    /\ UNCHANGED <<bufferPtr_, bufferLock_, bufferReady_, callbackDone_,
                   streaming, buffs0, flags, numElems, sexpired, sret,
                   crashed, fills, stopped>>
    /\ UNCHANGED offStream

\* wait_for blocks: the lock is released and the thread joins the waiters
\* of callbackDone_ in one atomic step
RS_Wait ==
    /\ At("reader", "towait")
    /\ bufferLock_' = "none"
    /\ callbackDone_' = callbackDone_ \cup {"reader"}
    /\ spc' = [spc EXCEPT !["reader"] = "wait"]
    /\ UNCHANGED <<bufferPtr_, bufferReady_, streaming, buffs0, flags,
                   numElems, sexpired, sret, crashed, fills, stopped>>
    /\ UNCHANGED offStream

\* a spurious wakeup
RS_Spurious ==
    /\ At("reader", "wait")
    /\ "reader" \in callbackDone_
    /\ callbackDone_' = callbackDone_ \ {"reader"}
    /\ spc' = [spc EXCEPT !["reader"] = "reacq"]
    /\ UNCHANGED <<bufferPtr_, bufferLock_, bufferReady_, streaming, buffs0,
                   flags, numElems, sexpired, sret, crashed, fills, stopped>>
    /\ UNCHANGED offStream

\* the timeout (timeoutUs) passes while the thread is blocked
RS_Expire ==
    /\ At("reader", "wait")
    /\ "reader" \in callbackDone_
    /\ callbackDone_' = callbackDone_ \ {"reader"}
    /\ sexpired' = [sexpired EXCEPT !["reader"] = TRUE]
    /\ spc' = [spc EXCEPT !["reader"] = "reacq"]
    /\ UNCHANGED <<bufferPtr_, bufferLock_, bufferReady_, streaming, buffs0,
                   flags, numElems, sret, crashed, fills, stopped>>
    /\ UNCHANGED offStream

\* the woken thread takes the lock again before wait_for goes on
RS_Reacquire ==
    /\ At("reader", "reacq")
    /\ BufferUnlocked
    /\ bufferLock_' = "reader"
    /\ spc' = [spc EXCEPT !["reader"] = "pred"]
    /\ UNCHANGED <<bufferPtr_, bufferReady_, callbackDone_, streaming, buffs0,
                   flags, numElems, sexpired, sret, crashed, fills, stopped>>
    /\ UNCHANGED offStream

\* lines 249-252: wait_for returned false; return SOAPY_SDR_TIMEOUT and
\* release the lock
RS_TimedOut ==
    /\ At("reader", "timeout")
    /\ sret' = [sret EXCEPT !["reader"] = SOAPY_SDR_TIMEOUT]
    /\ bufferLock_' = "none"
    /\ spc' = [spc EXCEPT !["reader"] = "ret"]
    /\ UNCHANGED <<bufferPtr_, bufferReady_, callbackDone_, streaming, buffs0,
                   flags, numElems, sexpired, crashed, fills, stopped>>
    /\ UNCHANGED offStream

\* lines 256-265: if (!airspyhf_is_streaming(dev_)) return
\* SOAPY_SDR_STREAM_ERROR; return getStreamMTU(stream).  The lock is
\* released on return.
RS_Check ==
    /\ At("reader", "check")
    /\ sret' = [sret EXCEPT !["reader"] =
                  IF ~streaming THEN SOAPY_SDR_STREAM_ERROR ELSE getStreamMTU]
    /\ bufferLock_' = "none"
    /\ spc' = [spc EXCEPT !["reader"] = "ret"]
    /\ UNCHANGED <<bufferPtr_, bufferReady_, callbackDone_, streaming, buffs0,
                   flags, numElems, sexpired, crashed, fills, stopped>>
    /\ UNCHANGED offStream

\* the caller has the result; the locals of the call are gone
RS_Done ==
    /\ At("reader", "ret")
    /\ spc' = [spc EXCEPT !["reader"] = "idle"]
    /\ buffs0' = nullptr
    /\ flags' = [flags EXCEPT !["reader"] = 0]
    /\ numElems' = 0
    /\ sexpired' = [sexpired EXCEPT !["reader"] = FALSE]
    /\ sret' = [sret EXCEPT !["reader"] = 0]
    /\ UNCHANGED <<bufferPtr_, bufferLock_, bufferReady_, callbackDone_,
                   streaming, crashed, fills, stopped>>
    /\ UNCHANGED offStream

readStream ==
    \/ \E b \in Buffers, f \in FlagValues, n \in ElemCounts : RS_Call(b, f, n)
    \/ RS_Lock \/ RS_Publish \/ RS_Pred \/ RS_Wait \/ RS_Spurious \/ RS_Expire
    \/ RS_Reacquire \/ RS_TimedOut \/ RS_Check \/ RS_Done

\* the device library calls rx_callback(transfer) for a transfer it has
\* received, which it does while the device streams
CB_Call ==
    /\ At("callback", "idle")
    /\ streaming
    /\ spc' = [spc EXCEPT !["callback"] = "lock"]
    /\ UNCHANGED <<bufferPtr_, bufferLock_, bufferReady_, callbackDone_,
                   streaming, buffs0, flags, numElems, sexpired, sret,
                   crashed, fills, stopped>>
    /\ UNCHANGED offStream

\* line 99: std::unique_lock<std::mutex> lock(bufferLock_)
CB_Lock ==
    /\ At("callback", "lock")
    /\ BufferUnlocked
    /\ bufferLock_' = "callback"
    /\ spc' = [spc EXCEPT !["callback"] = "pred"]
    /\ UNCHANGED <<bufferPtr_, bufferReady_, callbackDone_, streaming, buffs0,
                   flags, numElems, sexpired, sret, crashed, fills, stopped>>
    /\ UNCHANGED offStream

\* lines 103-106: bufferReady_.wait_for evaluates its predicate, holding
\* the lock
CB_Pred ==
    /\ At("callback", "pred")
    /\ spc' = [spc EXCEPT !["callback"] = CallbackPred(sexpired["callback"])]
    /\ UNCHANGED <<bufferPtr_, bufferLock_, bufferReady_, callbackDone_,
                   streaming, buffs0, flags, numElems, sexpired, sret,
                   crashed, fills, stopped>>
    /\ UNCHANGED offStream

\* wait_for blocks: the lock is released and the thread joins the waiters
\* of bufferReady_ in one atomic step
CB_Wait ==
    /\ At("callback", "towait")
    /\ bufferLock_' = "none"
    /\ bufferReady_' = bufferReady_ \cup {"callback"}
    /\ spc' = [spc EXCEPT !["callback"] = "wait"]
    /\ UNCHANGED <<bufferPtr_, callbackDone_, streaming, buffs0, flags,
                   numElems, sexpired, sret, crashed, fills, stopped>>
    /\ UNCHANGED offStream

\* a spurious wakeup
CB_Spurious ==
    /\ At("callback", "wait")
    /\ "callback" \in bufferReady_
    /\ bufferReady_' = bufferReady_ \ {"callback"}
    /\ spc' = [spc EXCEPT !["callback"] = "reacq"]
    /\ UNCHANGED <<bufferPtr_, bufferLock_, callbackDone_, streaming, buffs0,
                   flags, numElems, sexpired, sret, crashed, fills, stopped>>
    /\ UNCHANGED offStream

\* the timeout (1000 ms, line 102) passes while the thread is blocked
CB_Expire ==
    /\ At("callback", "wait")
    /\ "callback" \in bufferReady_
    /\ bufferReady_' = bufferReady_ \ {"callback"}
    /\ sexpired' = [sexpired EXCEPT !["callback"] = TRUE]
    /\ spc' = [spc EXCEPT !["callback"] = "reacq"]
    /\ UNCHANGED <<bufferPtr_, bufferLock_, callbackDone_, streaming, buffs0,
                   flags, numElems, sret, crashed, fills, stopped>>
    /\ UNCHANGED offStream

\* the woken thread takes the lock again before wait_for goes on
CB_Reacquire ==
    /\ At("callback", "reacq")
    /\ BufferUnlocked
    /\ bufferLock_' = "callback"
    /\ spc' = [spc EXCEPT !["callback"] = "pred"]
    /\ UNCHANGED <<bufferPtr_, bufferReady_, callbackDone_, streaming, buffs0,
                   flags, numElems, sexpired, sret, crashed, fills, stopped>>
    /\ UNCHANGED offStream

\* lines 109-112: wait_for returned false; return -1 and release the lock
CB_TimedOut ==
    /\ At("callback", "timeout")
    /\ sret' = [sret EXCEPT !["callback"] = -1]
    /\ bufferLock_' = "none"
    /\ spc' = [spc EXCEPT !["callback"] = "ret"]
    /\ UNCHANGED <<bufferPtr_, bufferReady_, callbackDone_, streaming, buffs0,
                   flags, numElems, sexpired, crashed, fills, stopped>>
    /\ UNCHANGED offStream

\* lines 115-118: if (!airspyhf_is_streaming(dev_)) return -1
CB_Check ==
    /\ At("callback", "check")
    /\ IF ~streaming
       THEN /\ sret' = [sret EXCEPT !["callback"] = -1]
            /\ bufferLock_' = "none"
            /\ spc' = [spc EXCEPT !["callback"] = "ret"]
       ELSE /\ spc' = [spc EXCEPT !["callback"] = "convert"]
            /\ UNCHANGED <<sret, bufferLock_>>
    /\ UNCHANGED <<bufferPtr_, bufferReady_, callbackDone_, streaming, buffs0,
                   flags, numElems, sexpired, crashed, fills, stopped>>
    /\ UNCHANGED offStream

\* lines 127-130: converterFunction_(transfer->samples, bufferPtr_,
\* transfer->sample_count, 1.0); bufferPtr_ = nullptr.  The conversion
\* writes sample_count samples from bufferPtr_ on: through nullptr it ends
\* the process.
Convert ==
    IF bufferPtr_ = nullptr
    THEN /\ crashed' = TRUE
         /\ UNCHANGED <<bufferPtr_, fills, spc>>
    ELSE /\ fills' = fills + 1
         /\ bufferPtr_' = nullptr
         /\ spc' = [spc EXCEPT !["callback"] = "notify"]
         /\ UNCHANGED crashed

CB_Convert ==
    /\ At("callback", "convert")
    /\ Convert
    /\ UNCHANGED <<bufferLock_, bufferReady_, callbackDone_, streaming, buffs0,
                   flags, numElems, sexpired, sret, stopped>>
    /\ UNCHANGED offStream

\* lines 131-133: callbackDone_.notify_one(); return 0.  The lock is
\* released on return.
CB_Notify ==
    /\ At("callback", "notify")
    /\ IF "reader" \in callbackDone_
       THEN /\ callbackDone_' = callbackDone_ \ {"reader"}
            /\ spc' = [spc EXCEPT !["callback"] = "ret", !["reader"] = "reacq"]
       ELSE /\ spc' = [spc EXCEPT !["callback"] = "ret"]
            /\ UNCHANGED callbackDone_
    /\ sret' = [sret EXCEPT !["callback"] = 0]
    /\ bufferLock_' = "none"
    /\ UNCHANGED <<bufferPtr_, bufferReady_, streaming, buffs0, flags,
                   numElems, sexpired, crashed, fills, stopped>>
    /\ UNCHANGED offStream

\* the device library has the result
CB_Done ==
    /\ At("callback", "ret")
    /\ spc' = [spc EXCEPT !["callback"] = "idle"]
    /\ sexpired' = [sexpired EXCEPT !["callback"] = FALSE]
    /\ sret' = [sret EXCEPT !["callback"] = 0]
    /\ UNCHANGED <<bufferPtr_, bufferLock_, bufferReady_, callbackDone_,
                   streaming, buffs0, flags, numElems, crashed, fills,
                   stopped>>
    /\ UNCHANGED offStream

rx_callback ==
    \/ CB_Call \/ CB_Lock \/ CB_Pred \/ CB_Wait \/ CB_Spurious \/ CB_Expire
    \/ CB_Reacquire \/ CB_TimedOut \/ CB_Check \/ CB_Convert \/ CB_Notify
    \/ CB_Done

\* activateStream(stream, flags, timeNs, numElems) begins.  line 186:
\* if (flags != 0) return SOAPY_SDR_NOT_SUPPORTED
A_Call(f) ==
    /\ At("control", "idle")
    /\ flags' = [flags EXCEPT !["control"] = f]
    /\ IF f # 0
       THEN /\ sret' = [sret EXCEPT !["control"] = SOAPY_SDR_NOT_SUPPORTED]
            /\ spc' = [spc EXCEPT !["control"] = "ret"]
       ELSE /\ spc' = [spc EXCEPT !["control"] = "start"]
            /\ UNCHANGED sret
    /\ UNCHANGED <<bufferPtr_, bufferLock_, bufferReady_, callbackDone_,
                   streaming, buffs0, numElems, sexpired, crashed, fills,
                   stopped>>
    /\ UNCHANGED offStream

\* lines 188-196: ret = airspyhf_start(dev_, &_rx_callback, this);
\* if (ret != AIRSPYHF_SUCCESS) return SOAPY_SDR_STREAM_ERROR; return 0
A_Start(ok) ==
    /\ At("control", "start")
    /\ streaming' = (ok \/ streaming)
    /\ stopped' = (stopped /\ ~ok)
    /\ sret' = [sret EXCEPT !["control"] =
                  IF ok THEN 0 ELSE SOAPY_SDR_STREAM_ERROR]
    /\ spc' = [spc EXCEPT !["control"] = "ret"]
    /\ UNCHANGED <<bufferPtr_, bufferLock_, bufferReady_, callbackDone_,
                   buffs0, flags, numElems, sexpired, crashed, fills>>
    /\ UNCHANGED offStream

\* deactivateStream(stream, flags, timeNs) begins.  line 203:
\* if (flags != 0) return SOAPY_SDR_NOT_SUPPORTED
D_Call(f) ==
    /\ At("control", "idle")
    /\ flags' = [flags EXCEPT !["control"] = f]
    /\ IF f # 0
       THEN /\ sret' = [sret EXCEPT !["control"] = SOAPY_SDR_NOT_SUPPORTED]
            /\ spc' = [spc EXCEPT !["control"] = "ret"]
       ELSE /\ spc' = [spc EXCEPT !["control"] = "stop"]
            /\ UNCHANGED sret
    /\ UNCHANGED <<bufferPtr_, bufferLock_, bufferReady_, callbackDone_,
                   streaming, buffs0, numElems, sexpired, crashed, fills,
                   stopped>>
    /\ UNCHANGED offStream

\* lines 206-210: ret = airspyhf_stop(dev_);
\* if (ret != AIRSPYHF_SUCCESS) return SOAPY_SDR_STREAM_ERROR
D_Stop(ok) ==
    /\ At("control", "stop")
    /\ streaming' = (streaming /\ ~ok)
    /\ IF ok
       THEN /\ spc' = [spc EXCEPT !["control"] = "wakeCallback"]
            /\ UNCHANGED sret
       ELSE /\ sret' = [sret EXCEPT !["control"] = SOAPY_SDR_STREAM_ERROR]
            /\ spc' = [spc EXCEPT !["control"] = "ret"]
    /\ UNCHANGED <<bufferPtr_, bufferLock_, bufferReady_, callbackDone_,
                   buffs0, flags, numElems, sexpired, crashed, fills, stopped>>
    /\ UNCHANGED offStream

\* notify_one() on a condition variable by a thread that does not hold the
\* lock: the waiter t, if it is blocked, leaves the wait
Wake(cv, t) == cv \ {t}

\* line 213: bufferReady_.notify_one()
D_NotifyReady ==
    /\ At("control", "wakeCallback")
    /\ bufferReady_' = Wake(bufferReady_, "callback")
    /\ spc' = [spc EXCEPT !["control"] = "wakeReader",
                          !["callback"] =
                              IF "callback" \in bufferReady_
                                 /\ "callback" \notin bufferReady_'
                              THEN "reacq" ELSE @]
    /\ UNCHANGED <<bufferPtr_, bufferLock_, callbackDone_, streaming, buffs0,
                   flags, numElems, sexpired, sret, crashed, fills, stopped>>
    /\ UNCHANGED offStream

\* lines 214-216: callbackDone_.notify_one(); return 0
D_NotifyDone ==
    /\ At("control", "wakeReader")
    /\ callbackDone_' = Wake(callbackDone_, "reader")
    /\ spc' = [spc EXCEPT !["control"] = "ret",
                          !["reader"] =
                              IF "reader" \in callbackDone_
                                 /\ "reader" \notin callbackDone_'
                              THEN "reacq" ELSE @]
    /\ sret' = [sret EXCEPT !["control"] = 0]
    /\ stopped' = ~streaming
    /\ UNCHANGED <<bufferPtr_, bufferLock_, bufferReady_, streaming, buffs0,
                   flags, numElems, sexpired, crashed, fills>>
    /\ UNCHANGED offStream

\* the caller has the result
Ctl_Done ==
    /\ At("control", "ret")
    /\ spc' = [spc EXCEPT !["control"] = "idle"]
    /\ flags' = [flags EXCEPT !["control"] = 0]
    /\ sret' = [sret EXCEPT !["control"] = 0]
    /\ UNCHANGED <<bufferPtr_, bufferLock_, bufferReady_, callbackDone_,
                   streaming, buffs0, numElems, sexpired, crashed, fills,
                   stopped>>
    /\ UNCHANGED offStream

activateStream ==
    (\E f \in FlagValues : A_Call(f)) \/ (\E ok \in BOOLEAN : A_Start(ok))

deactivateStream ==
    \/ \E f \in FlagValues : D_Call(f)
    \/ \E ok \in BOOLEAN : D_Stop(ok)
    \/ D_NotifyReady \/ D_NotifyDone

NextStream ==
    readStream \/ rx_callback \/ activateStream \/ deactivateStream \/ Ctl_Done

SpecStream == Init /\ [][NextStream]_vars

(***************************************************************************)
(* The settings API (src/src/Settings.cpp).  Every call is one step: the   *)
(* API is called by one thread, and a call makes at most one call into the *)
(* device library, which succeeds or fails.                                *)
(***************************************************************************)

\* the variables outside the settings
offSettings == <<engineVars, ctorVars, streamVars>>

\* the cached settings, for comparing before and after
Cache ==
    <<sampleRate_, centerFrequency_, enableDSP_, agcEnabled_, lnaGain_,
      hfAttenuation_, frequencyCorrection_, iqBalance_>>

\* direction != SOAPY_SDR_RX or channel != 0
Unsupported(direction, channel) == direction # "RX" \/ channel # 0

\* std::round of h halves: to the nearest whole, halves away from zero
Round(h) == IF h >= 0 THEN (h + 1) \div 2 ELSE -((1 - h) \div 2)

\* static_cast<uint32_t> of h halves (h >= 0): the fraction is dropped
Truncate(h) == h \div 2

\* line 489: static_cast<uint8_t>(std::round(value / -6)), value a
\* multiple of 6.  A negative quotient is outside of uint8_t: the
\* conversion is undefined and gives what the machine's conversion gives
Attenuation(value) ==
    IF value <= 0 THEN {(-value) \div 6} ELSE {0, 256 - (value \div 6)}

\* lines 432-454
getGain(direction, channel, name) ==
    IF Unsupported(direction, channel) THEN 0
    ELSE IF name = "LNA" THEN lnaGain_
    ELSE IF name = "HF_ATT" THEN hfAttenuation_ ELSE 0

\* lines 399-409
getGainMode(direction, channel) ==
    IF Unsupported(direction, channel) THEN FALSE ELSE agcEnabled_

\* lines 264-274
getIQBalance(direction, channel) ==
    IF Unsupported(direction, channel) THEN <<0, 0>> ELSE iqBalance_

\* lines 321-337: frequencyCorrection_ / 1000.0, in halves of a ppb
getFrequencyCorrection(direction, channel) ==
    IF Unsupported(direction, channel) THEN 0 ELSE 2 * frequencyCorrection_

\* lines 537-551: centerFrequency_ as a double, in halves
getFrequency(direction, channel, name) ==
    IF name # "RF" THEN 0 ELSE 2 * centerFrequency_

\* lines 643-656: sampleRate_ as a double, in halves
getSampleRate(direction, channel) ==
    IF Unsupported(direction, channel) THEN 0 ELSE 2 * sampleRate_

\* lines 790-802
readSetting(key) ==
    IF key = "dsp" THEN (IF enableDSP_ THEN "true" ELSE "false") ELSE ""

\* the record of a call: its arguments, the result `ok` of the device call,
\* the device calls made, what the matching getter returned before and the
\* cached settings before
Called(op, direction, channel, name, value, ok, calls, before) ==
    [op |-> op, dir |-> direction, chan |-> channel, name |-> name,
     value |-> value, ok |-> ok, calls |-> calls, before |-> before,
     pre |-> Cache, out |-> ""]

\* lines 467-500: setGain(direction, channel, name, value)
setGain(direction, channel, name, value, ok) ==
    /\ crashed = FALSE
    /\ IF Unsupported(direction, channel) \/ name \notin {"LNA", "HF_ATT"}
       THEN /\ lastOp' = Called("setGain", direction, channel, name, value,
                                ok, <<>>, getGain(direction, channel, name))
            /\ UNCHANGED <<lnaGain_, hfAttenuation_>>
       ELSE IF name = "LNA"
       THEN /\ lastOp' = Called("setGain", direction, channel, name, value, ok,
                                <<<<"airspyhf_set_hf_lna",
                                    IF value > 3 THEN 1 ELSE 0>>>>,
                                getGain(direction, channel, name))
            /\ lnaGain_' = IF ok THEN value ELSE lnaGain_
            /\ UNCHANGED hfAttenuation_
       ELSE \E att \in Attenuation(value) :
            /\ lastOp' = Called("setGain", direction, channel, name, value, ok,
                                <<<<"airspyhf_set_hf_att", att>>>>,
                                getGain(direction, channel, name))
            /\ hfAttenuation_' = IF ok THEN value ELSE hfAttenuation_
            /\ UNCHANGED lnaGain_
    /\ UNCHANGED <<sampleRate_, centerFrequency_, enableDSP_, agcEnabled_,
                   frequencyCorrection_, iqBalance_>>
    /\ UNCHANGED offSettings

\* lines 374-397: setGainMode(direction, channel, automatic)
setGainMode(direction, channel, automatic, ok) ==
    /\ crashed = FALSE
    /\ IF Unsupported(direction, channel) \/ agcEnabled_ = automatic
       THEN /\ lastOp' = Called("setGainMode", direction, channel, "",
                                automatic, ok, <<>>,
                                getGainMode(direction, channel))
            /\ UNCHANGED agcEnabled_
       ELSE /\ lastOp' = Called("setGainMode", direction, channel, "",
                                automatic, ok,
                                <<<<"airspyhf_set_hf_agc", automatic>>>>,
                                getGainMode(direction, channel))
            /\ agcEnabled_' = IF ok THEN automatic ELSE agcEnabled_
    /\ UNCHANGED <<sampleRate_, centerFrequency_, enableDSP_, lnaGain_,
                   hfAttenuation_, frequencyCorrection_, iqBalance_>>
    /\ UNCHANGED offSettings

\* lines 238-262: setIQBalance(direction, channel, balance)
setIQBalance(direction, channel, balance, ok) ==
    /\ crashed = FALSE
    /\ IF Unsupported(direction, channel) \/ iqBalance_ = balance
       THEN /\ lastOp' = Called("setIQBalance", direction, channel, "",
                                balance, ok, <<>>,
                                getIQBalance(direction, channel))
            /\ UNCHANGED iqBalance_
       ELSE /\ lastOp' = Called("setIQBalance", direction, channel, "",
                                balance, ok,
                                <<<<"airspyhf_set_optimal_iq_correction_point",
                                    0>>>>,
                                getIQBalance(direction, channel))
            /\ iqBalance_' = IF ok THEN balance ELSE iqBalance_
    /\ UNCHANGED <<sampleRate_, centerFrequency_, enableDSP_, agcEnabled_,
                   lnaGain_, hfAttenuation_, frequencyCorrection_>>
    /\ UNCHANGED offSettings

\* lines 293-319: setFrequencyCorrection(direction, channel, value)
setFrequencyCorrection(direction, channel, value, ok) ==
    /\ crashed = FALSE
    /\ LET correction_ppb == Round(value) IN
       IF Unsupported(direction, channel)
          \/ frequencyCorrection_ = correction_ppb
       THEN /\ lastOp' = Called("setFrequencyCorrection", direction, channel,
                                "", value, ok, <<>>,
                                getFrequencyCorrection(direction, channel))
            /\ UNCHANGED frequencyCorrection_
       ELSE /\ lastOp' = Called("setFrequencyCorrection", direction, channel,
                                "", value, ok,
                                <<<<"airspyhf_set_calibration",
                                    correction_ppb>>>>,
                                getFrequencyCorrection(direction, channel))
            /\ frequencyCorrection_' =
                   IF ok THEN correction_ppb ELSE frequencyCorrection_
    /\ UNCHANGED <<sampleRate_, centerFrequency_, enableDSP_, agcEnabled_,
                   lnaGain_, hfAttenuation_, iqBalance_>>
    /\ UNCHANGED offSettings

\* lines 506-535: setFrequency(direction, channel, name, frequency, args)
setFrequency(direction, channel, name, frequency, ok) ==
    /\ crashed = FALSE
    /\ IF Unsupported(direction, channel) \/ name # "RF"
       THEN /\ lastOp' = Called("setFrequency", direction, channel, name,
                                frequency, ok, <<>>,
                                getFrequency(direction, channel, name))
            /\ UNCHANGED centerFrequency_
       ELSE /\ centerFrequency_' = Truncate(frequency)
            /\ lastOp' = Called("setFrequency", direction, channel, name,
                                frequency, ok,
                                <<<<"airspyhf_set_freq",
                                    Truncate(frequency)>>>>,
                                getFrequency(direction, channel, name))
    /\ UNCHANGED <<sampleRate_, enableDSP_, agcEnabled_, lnaGain_,
                   hfAttenuation_, frequencyCorrection_, iqBalance_>>
    /\ UNCHANGED offSettings

\* lines 618-641: setSampleRate(direction, channel, rate)
setSampleRate(direction, channel, rate, ok) ==
    /\ crashed = FALSE
    /\ IF Unsupported(direction, channel)
       THEN /\ lastOp' = Called("setSampleRate", direction, channel, "", rate,
                                ok, <<>>, getSampleRate(direction, channel))
            /\ UNCHANGED sampleRate_
       ELSE /\ sampleRate_' = Truncate(rate)
            /\ lastOp' = Called("setSampleRate", direction, channel, "", rate,
                                ok,
                                <<<<"airspyhf_set_samplerate",
                                    Truncate(rate)>>>>,
                                getSampleRate(direction, channel))
    /\ UNCHANGED <<centerFrequency_, enableDSP_, agcEnabled_, lnaGain_,
                   hfAttenuation_, frequencyCorrection_, iqBalance_>>
    /\ UNCHANGED offSettings

\* lines 763-788: writeSetting(key, value)
writeSetting(key, value, ok) ==
    /\ crashed = FALSE
    /\ lastOp' = Called("writeSetting", "RX", 0, key, value, ok,
                        IF key = "dsp"
                        THEN <<<<"airspyhf_set_lib_dsp", value = "true">>>>
                        ELSE <<>>,
                        readSetting(key))
    /\ UNCHANGED <<sampleRate_, centerFrequency_, enableDSP_, agcEnabled_,
                   lnaGain_, hfAttenuation_, frequencyCorrection_, iqBalance_>>
    /\ UNCHANGED offSettings

\* lines 790-802: a call of readSetting(key) and the string it returns
ReadSetting(key) ==
    /\ crashed = FALSE
    /\ lastOp' = [Called("readSetting", "RX", 0, key, "", TRUE, <<>>,
                         readSetting(key))
                  EXCEPT !.out = readSetting(key)]
    /\ UNCHANGED <<sampleRate_, centerFrequency_, enableDSP_, agcEnabled_,
                   lnaGain_, hfAttenuation_, frequencyCorrection_, iqBalance_>>
    /\ UNCHANGED offSettings

NextSettings ==
    \/ \E t \in Targets, n \in GainNames,
          v \in GainValues, ok \in BOOLEAN : setGain(t[1], t[2], n, v, ok)
    \/ \E t \in Targets, a \in BOOLEAN, ok \in BOOLEAN :
          setGainMode(t[1], t[2], a, ok)
    \/ \E t \in Targets, b \in Balances, ok \in BOOLEAN :
          setIQBalance(t[1], t[2], b, ok)
    \/ \E t \in Targets, v \in Corrections,
          ok \in BOOLEAN : setFrequencyCorrection(t[1], t[2], v, ok)
    \/ \E t \in Targets, n \in FrequencyNames,
          f \in Frequencies, ok \in BOOLEAN : setFrequency(t[1], t[2], n, f, ok)
    \/ \E t \in Targets, r \in Rates, ok \in BOOLEAN :
          setSampleRate(t[1], t[2], r, ok)
    \/ \E k \in Keys, v \in Values, ok \in BOOLEAN : writeSetting(k, v, ok)
    \/ \E k \in Keys : ReadSetting(k)

SpecSettings == Init /\ [][NextSettings]_vars

(***************************************************************************)
(* Properties                                                              *)
(***************************************************************************)

\* the number of elements really in the buffer, and the room really left
TrueCount == Sub(write_pos_, read_pos_)

TrueFree == capacity_ - TrueCount

\* C1: in every reachable state of one producer and one consumer whose
\* callbacks report no more than they were offered, write_pos_ - read_pos_
\* (unsigned) lies in [0, capacity] and equals the number of elements
\* produced minus the number of elements consumed.
C1_Difference ==
    /\ TrueCount >= 0
    /\ TrueCount <= capacity_
    /\ TrueCount = inFlight

\* C1 witness: the buffer is full and write_pos_ has overflowed while
\* read_pos_ has not
C1_Witness ==
    /\ TrueCount = capacity_
    /\ write_pos_ < read_pos_
    /\ inFlight = capacity_

\* C2: the elements the consumer callbacks read are, in order, the elements
\* the producer callbacks wrote (fifoOk: each element read was the next one
\* of the written sequence), also for a span that crosses the physical end
\* of the buffer; and a read that takes everything it was offered leaves
\* available() == 0.
C2_FifoHandoff ==
    /\ fifoOk
    /\ (/\ pc["cons"] = "ret"
        /\ cbCalls["cons"] = 1
        /\ ret["cons"] = offered["cons"])
       => available(0) = 0

\* C2 witness: a read got the whole buffer in one span that starts past
\* index 0, so the span runs into the second mapping
C2_Witness ==
    /\ pc["cons"] = "ret"
    /\ ret["cons"] = capacity_
    /\ offeredAt["cons"] > 0
    /\ fifoOk

\* C3 (as stated): whenever no operation is in progress, available() plus
\* free_to_write(), both with their default argument 0, equals capacity.
C3_Conservation ==
    (\A t \in Threads : pc[t] = "idle")
    => available(0) + free_to_write(0) = capacity_

\* C4: every value free_to_write(r) returns, for any r, is <= capacity.
C4_NoOverrun ==
    /\ \A r \in 0 .. (capacity_ + 1) : free_to_write(r) <= capacity_
    /\ avail["prod"] <= capacity_

\* C4 witness: the buffer is full, the producer asked for room, was told
\* there is none and is blocked
C4_Witness ==
    /\ TrueCount = capacity_
    /\ pc["prod"] = "wait"
    /\ avail["prod"] = 0
    /\ free_to_write(1) = 0

\* C5: a call that returns the sentinel -1 timed out and never invoked its
\* callback; and a call with elements >= 1 that found nothing to transfer
\* and saw no commit of its peer returns -1 without invoking its callback.
C5_TimeoutResult ==
    \A t \in Threads :
        /\ pc[t] = "timeout" => cbCalls[t] = 0 /\ expired[t]
        /\ (pc[t] = "ret" /\ ret[t] = TimedOut) => cbCalls[t] = 0 /\ expired[t]
        /\ (pc[t] = "ret" /\ quiet[t] /\ elements[t] >= 1)
           => ret[t] = TimedOut /\ cbCalls[t] = 0

\* C5 witness: read_at_least(n >= 1) on an empty buffer, no producer commit,
\* has returned -1
C5_Witness ==
    /\ pc["cons"] = "ret"
    /\ quiet["cons"]
    /\ elements["cons"] >= 1
    /\ ret["cons"] = TimedOut
    /\ cbCalls["cons"] = 0


\* the counter a thread owns, its cached copy, its cached count and pointer
OwnPos(t) == IF t = "cons" THEN read_pos_ ELSE write_pos_

OwnCachedPos(t) == IF t = "cons" THEN read_pos_cached_ ELSE write_pos_cached_

OwnCount(t) == IF t = "cons" THEN available(0) ELSE free_to_write(0)

OwnPtr(t) == IF t = "cons" THEN read_ptr ELSE write_ptr

\* what is really there for a thread: elements to read, or room to write
TrueFor(t) == IF t = "cons" THEN TrueCount ELSE TrueFree

\* what the availability check of a new call with `required` would return
CheckFor(t, required) ==
    IF t = "cons" THEN available(required) ELSE free_to_write(required)

\* the places of a call between its failed first check and its callback
SlowPlaces == {"lock", "pred", "towait", "wait", "reacq", "timeout"}

\* C6: a timed-out call has left the caller's counter where it was when the
\* call began, no step of a call on its slow path changes read_pos_ or
\* write_pos_, and a call made again with the same arguments finds enough
\* as soon as enough data / space exists.
C6_TimeoutLeavesState ==
    /\ [](\A t \in Threads :
            (pc[t] = "ret" /\ ret[t] = TimedOut)
            => /\ OwnPos(t) = start[t]
               /\ OwnCachedPos(t) = start[t]
               /\ TrueFor(t) >= elements[t]
                  => CheckFor(t, elements[t]) >= elements[t])
    /\ [][\A t \in Threads :
            (pc[t] \in SlowPlaces /\ pc'[t] \in SlowPlaces \cup {"ret"}
             /\ pc'[t] # pc[t])
            => (read_pos_' = read_pos_ /\ write_pos_' = write_pos_)]_vars

\* C6 witness: a read has timed out, and the data it asked for is there now
C6_Witness ==
    /\ pc["cons"] = "ret"
    /\ ret["cons"] = TimedOut
    /\ elements["cons"] >= 1
    /\ TrueCount >= elements["cons"]

\* C7: a call whose first availability check found enough goes through
\* callback, commit and return without holding lock_ and without waiting on
\* cond_, and its next step can be taken whatever the other thread and the
\* holder of the lock are doing.
C7_FastPathLockFree ==
    /\ path["cons"] \in {"cached", "fresh"}
       => /\ lock_ # "cons"
          /\ "cons" \notin cond_
          /\ pc["cons"] \in {"cb", "commit", "notify", "ret"}
          /\ pc["cons"] # "ret" => ENABLED R_Finish
    /\ path["prod"] \in {"cached", "fresh"}
       => /\ lock_ # "prod"
          /\ "prod" \notin cond_
          /\ pc["prod"] \in {"cb", "commit", "notify", "ret"}
          /\ pc["prod"] # "ret" => ENABLED W_Finish

\* C7 witness: the consumer is committing on its fast path while the
\* producer holds the lock
C7_Witness ==
    /\ path["cons"] \in {"cached", "fresh"}
    /\ pc["cons"] = "commit"
    /\ lock_ = "prod"

\* C8 (as stated): the count passed to the callback is at least what was
\* really there when the call began.  The first check is the first statement
\* of the call, so a call that goes straight to its callback began in the
\* state before that step; a call that goes to the lock found less than
\* `elements` there when it began, and is offered at least `elements` later.
C8_FullCountOffered ==
    [][\A t \in Threads :
         /\ (pc[t] = "idle" /\ pc'[t] = "cb") => avail'[t] >= TrueFor(t)
         /\ (pc[t] = "idle" /\ pc'[t] = "lock") => TrueFor(t) < elements'[t]
         /\ (pc[t] = "pred" /\ pc'[t] = "cb") => avail'[t] >= elements[t]]_vars

\* C8 (amended): the count passed to the callback is at least `elements` and
\* never more than what is really there; it is exactly what is really there
\* at the availability check that yielded it when that check reloaded the
\* peer's counter (the cached count was below `elements`), which is always
\* so on the slow path.
C8_OfferedCount ==
    /\ [](\A t \in Threads :
            /\ pc[t] = "cb"
               => (avail[t] >= elements[t] /\ avail[t] <= TrueFor(t))
            /\ pc[t] = "commit"
               => (offered[t] >= elements[t] /\ offered[t] <= TrueFor(t)))
    /\ [][\A t \in Threads :
            (pc[t] \in {"idle", "pred"} /\ pc'[t] = "cb"
             /\ path'[t] # "cached")
            => avail'[t] = TrueFor(t)]_vars

\* C8 witness: a fast-path read served from the cache is offered fewer
\* elements than are in the buffer
C8_Witness ==
    /\ pc["cons"] = "cb"
    /\ path["cons"] = "cached"
    /\ avail["cons"] >= 1
    /\ avail["cons"] < TrueCount

\* C9: a successful call returns the count c its callback reported and has
\* advanced the caller's counter by exactly c; what was offered and not taken
\* is still there (the cached count is offered - c) and the next span starts
\* c elements further.
C9_CommitsReported ==
    \A t \in Threads :
        (pc[t] = "ret" /\ ret[t] # TimedOut)
        => /\ cbCalls[t] = 1
           /\ ret[t] = done[t]
           /\ ret[t] <= offered[t]
           /\ OwnPos(t) = Add(start[t], ret[t])
           /\ OwnCachedPos(t) = OwnPos(t)
           /\ OwnCount(t) = offered[t] - ret[t]
           /\ OwnPtr(t) = mask(offeredAt[t] + ret[t])

\* C9 witness: a partial transfer, the callback took some but not all of
\* what it was offered
C9_Witness ==
    /\ pc["cons"] = "ret"
    /\ ret["cons"] > 0
    /\ ret["cons"] < offered["cons"]

\* C10: from the moment clear() has stored the counters until the producer's
\* next callback, read_pos_ and write_pos_ are 0, available() returns 0 and
\* free_to_write() returns capacity; and that next callback is offered
\* capacity elements starting at index 0.
C10_ClearResets ==
    /\ sinceClear = "clean"
       => /\ read_pos_ = 0
          /\ write_pos_ = 0
          /\ available(0) = 0
          /\ free_to_write(0) = capacity_
    /\ sinceClear = "first"
       => /\ offered["prod"] = capacity_
          /\ offeredAt["prod"] = 0

\* C10 witness: elements had been produced, clear() ran, and the producer's
\* next callback (which wrote nothing itself) has been invoked
C10_Witness ==
    /\ sinceClear = "first"
    /\ done["prod"] = 0
    /\ \E k \in DOMAIN buffer_ : buffer_[k] # 0

\* the count a check made right after clear() has to find: nothing to read,
\* everything free
ResetCount(t) == IF t = "cons" THEN 0 ELSE capacity_

\* C11: a clear() that runs while a thread is blocked in its wait wakes that
\* thread (notify_all empties the waiters, each has to take the lock again);
\* a predicate evaluated while the counters are still as clear() left them
\* sees the reset counters; the callback follows a predicate only if the
\* count it found reaches min_elements; and the blocked call returns.
C11_ClearWakesWaiter ==
    /\ [][clr = "reset" /\ clr' = "idle"
            => /\ cond_' = {}
               /\ \A t \in cond_ : pc'[t] = "reacq"]_vars
    /\ [][\A t \in Threads :
            (pc[t] = "pred" /\ pc'[t] # "pred" /\ sinceClear = "clean")
                => avail'[t] = ResetCount(t)]_vars
    /\ [][\A t \in Threads :
            (pc[t] = "pred" /\ pc'[t] = "cb") => avail'[t] >= elements[t]]_vars
    /\ \A t \in Threads :
            (clr = "reset" /\ t \in cond_) ~> (pc[t] = "ret")

\* clear() has reset the counters and is about to notify a blocked consumer
C11_Witness ==
    /\ clr = "reset"
    /\ "cons" \in cond_
    /\ pc["cons"] = "wait"
    /\ write_pos_ = 0
    /\ read_pos_ = 0

\* mask() of an object whose capacity_ is cap
MaskOf(cap, val) == BitAnd((cap + CtorMax - 1) % CtorMax, val)

\* C12: an object exists only if capacity * sizeof(T) passed the validation
\* (at least a page, a power of two); after a validation failure no memory
\* object and no mapping exists; and for every existing object mask(v) is
\* v mod capacity_.
C12_ValidCapacity ==
    /\ ctor \notin {"new", "validate", "thrown"}
            => size >= PageSize /\ is_power_of_two(size)
    /\ thrown \in {"pagesize", "power"}
            => /\ mem_fd = "none"
               /\ fileLen = 0
               /\ \A a \in Addresses : vmap[a] = Unmapped
    /\ ctor = "built"
            => \A v \in Addresses : MaskOf(capacity, v) = v % capacity

\* C13: in an existing object of byte size S, for every k in [0, S) the
\* addresses k and k + S show the same byte of the memory object, so what
\* is stored through one is loaded through the other; and any S consecutive
\* addresses of the 2 * S range show S different bytes, so a pattern stored
\* across the boundary is loaded back unchanged from one contiguous span.
C13_MirrorMapping ==
    ctor = "built" =>
        /\ \A k \in 0 .. (size - 1) :
                /\ vmap[k] \in 0 .. (fileLen - 1)
                /\ vmap[k + size] = vmap[k]
                /\ Load(k + size) = Load(k)
        /\ \A a1, a2 \in 0 .. (2 * size - 1) :
                (a1 < a2 /\ a2 - a1 < size) => vmap[a1] # vmap[a2]

\* a pattern 1, 1, 0 stored across the boundary of an existing object
C13_Witness ==
    /\ ctor = "built"
    /\ Load(size - 1) = 1
    /\ Load(size) = 1
    /\ Load(0) = 1
    /\ Load(size + 1) = 0

\* C14: every span handed to a callback starts at an element index
\* mask(position) in [0, capacity), holds at most capacity elements, and so
\* ends within the 2 * capacity elements of the double mapping.
C14_SpanInsideMapping ==
    \A t \in Threads :
        /\ pc[t] = "cb"
            => /\ OwnPtr(t) \in 0 .. (capacity_ - 1)
               /\ avail[t] <= capacity_
               /\ OwnPtr(t) + avail[t] <= 2 * capacity_
        /\ pc[t] \in {"commit", "notify"}
            => /\ offeredAt[t] \in 0 .. (capacity_ - 1)
               /\ offered[t] <= capacity_
               /\ offeredAt[t] + offered[t] <= 2 * capacity_

\* the producer's callback was handed a full-capacity span that starts in the
\* middle of the buffer and runs into the mirror half
C14_Witness ==
    /\ pc["prod"] = "commit"
    /\ offeredAt["prod"] > 0
    /\ offered["prod"] = capacity_
    /\ offeredAt["prod"] + offered["prod"] > capacity_

\* C15: every read_at_least / write_at_least call that has begun returns (a
\* count or -1), whatever the other thread does; and the steps of available,
\* free_to_write, the callback, produce / consume and the return wait for
\* nobody.
C15_Termination ==
    /\ \A t \in Threads : (pc[t] \notin {"idle", "ret"}) ~> (pc[t] = "ret")
    /\ [](pc["cons"] \in {"cb", "commit", "notify"} => ENABLED R_Finish)
    /\ [](pc["prod"] \in {"cb", "commit", "notify"} => ENABLED W_Finish)
    /\ [](pc["cons"] \in {"pred", "towait", "timeout"}
            => ENABLED (R_Pred \/ R_Wait \/ R_TimedOut))
    /\ [](pc["prod"] \in {"pred", "towait", "timeout"}
            => ENABLED (W_Pred \/ W_Wait \/ W_TimedOut))

\* both calls went through the wait and have returned, the consumer with a
\* count and the producer with the timeout
C15_Witness ==
    /\ pc["cons"] = "ret"
    /\ pc["prod"] = "ret"
    /\ path["cons"] = "slow"
    /\ path["prod"] = "slow"
    /\ ret["cons"] >= 0
    /\ ret["prod"] = TimedOut

\* C16: read_pos_ changes only in consume (the fetch_add of the consumed
\* count) and in clear (the store of 0), write_pos_ only in produce and in
\* clear; no step of the producer's call changes read_pos_ and no step of the
\* consumer's call changes write_pos_.
C16_PositionFrame ==
    [][/\ read_pos_' # read_pos_
            => \/ /\ pc["cons"] = "commit" /\ pc'["cons"] = "notify"
                  /\ read_pos_' = Add(read_pos_, done["cons"])
               \/ /\ clr = "locked" /\ clr' = "reset"
                  /\ read_pos_' = 0
       /\ write_pos_' # write_pos_
            => \/ /\ pc["prod"] = "commit" /\ pc'["prod"] = "notify"
                  /\ write_pos_' = Add(write_pos_, done["prod"])
               \/ /\ clr = "locked" /\ clr' = "reset"
                  /\ write_pos_' = 0
       /\ (pc'["prod"] # pc["prod"] /\ clr' = clr) => read_pos_' = read_pos_
       /\ (pc'["cons"] # pc["cons"] /\ clr' = clr) => write_pos_' = write_pos_
      ]_vars

\* the consumer has just advanced read_pos_ while the producer is between its
\* callback and its own commit
C16_Witness ==
    /\ pc["cons"] = "notify"
    /\ done["cons"] > 0
    /\ pc["prod"] = "commit"
    /\ done["prod"] > 0
    /\ read_pos_ # write_pos_

\* C17: what available(r) / free_to_write(r) would return to its own side
\* is never more than the true count write_pos_ - read_pos_ / the true free
\* space, for every r; the count offered to a callback stays within the true
\* count for as long as the callback runs and until the commit, so the
\* consumer reads only produced slots and the producer writes only consumed
\* ones.
C17_NeverOptimistic ==
    \A t \in Threads :
        /\ \A r \in Requests : CheckFor(t, r) <= TrueFor(t)
        /\ pc[t] = "cb" => avail[t] <= TrueFor(t)
        /\ pc[t] = "commit"
            => /\ offered[t] <= TrueFor(t)
               /\ done[t] <= offered[t]

\* the consumer's callback was offered one element while two are in the
\* buffer: the count is stale, on the safe side
C17_Witness ==
    /\ pc["cons"] = "commit"
    /\ offered["cons"] > 0
    /\ offered["cons"] < TrueCount
    /\ done["cons"] = offered["cons"]

\* the other side
Peer(t) == IF t = "cons" THEN "prod" ELSE "cons"

\* C18: no wakeup is lost.  A thread is never left blocked in its wait while
\* what it asked for is there: if the peer's commit has made the count reach
\* min_elements, then the peer's notify_one is still to come (the peer is
\* between its commit and its notify), so the blocked thread gets to its
\* callback through that notification and not through its timeout.
C18_NoLostWakeup ==
    \A t \in Threads :
        (pc[t] = "wait" /\ TrueFor(t) >= elements[t])
            => pc[Peer(t)] = "notify"

\* C19: on the fast and on the slow path the callback is entered only with
\* a count of at least `elements`, and only from an availability check; a
\* predicate evaluation that finds less (after a spurious wakeup, a peer's
\* notify or clear's notify_all) leads back to the wait or to the timeout,
\* with no callback and no change of the caller's counter; nothing is
\* committed without a callback before it.
C19_CallbackOnlyWhenSatisfied ==
    /\ [](\A t \in Threads :
            /\ pc[t] \in {"cb", "commit", "notify"} => avail[t] >= elements[t]
            /\ pc[t] \in {"towait", "wait", "reacq", "timeout"}
                    => cbCalls[t] = 0)
    /\ [][\A t \in Threads :
            /\ (pc'[t] = "cb" /\ pc[t] # "cb")
                    => /\ pc[t] \in {"idle", "pred"}
                       /\ avail'[t] >= elements'[t]
            /\ (pc[t] = "pred" /\ pc'[t] # "pred" /\ avail'[t] < elements[t])
                    => /\ pc'[t] \in {"towait", "timeout"}
                       /\ read_pos_' = read_pos_
                       /\ write_pos_' = write_pos_
                       /\ cbCalls'[t] = 0
            /\ (pc'[t] = "commit" /\ pc[t] # "commit") => pc[t] = "cb"
            /\ (pc'[t] = "notify" /\ pc[t] # "notify") => pc[t] = "commit"
      ]_vars

\* the consumer was woken before its timeout and will find one element
\* where it asked for more
C19_Witness ==
    /\ pc["cons"] = "reacq"
    /\ ~expired["cons"]
    /\ TrueCount > 0
    /\ TrueCount < elements["cons"]
    /\ elements["cons"] <= capacity_

\* C20: a call goes to its -1 return only from a predicate evaluation made
\* after the timeout passed that found the true count below `elements`; and
\* a predicate evaluation made while the true count is at least `elements`
\* leads to the callback, also when it is the one at the timeout (the peer's
\* notification was missed), so that call returns the committed count.
C20_TimeoutOnlyWhenShort ==
    /\ [](\A t \in Threads :
            /\ (pc[t] = "timeout" \/ (pc[t] = "ret" /\ ret[t] = TimedOut))
                    => (expired[t] /\ avail[t] < elements[t])
            /\ (pc[t] = "ret" /\ cbCalls[t] = 1)
                    => (ret[t] = done[t] /\ ret[t] # TimedOut))
    /\ [][\A t \in Threads :
            /\ (pc'[t] = "timeout" /\ pc[t] # "timeout")
                    => /\ pc[t] = "pred"
                       /\ expired[t]
                       /\ TrueFor(t) < elements[t]
            /\ (pc[t] = "pred" /\ pc'[t] # "pred" /\ TrueFor(t) >= elements[t])
                    => /\ pc'[t] = "cb"
                       /\ avail'[t] >= elements[t]
      ]_vars

\* the consumer's timeout passed while it was blocked, the predicate at the
\* timeout found what the producer had committed, and the call has returned
\* a count
C20_Witness ==
    /\ pc["cons"] = "ret"
    /\ expired["cons"]
    /\ cbCalls["cons"] = 1
    /\ ret["cons"] > 0

\* C21: commit, then signal.  When a thread is at the notify_one of produce
\* / consume, its counter already is the counter of the call's start plus
\* the committed count; the commit step wakes nobody and the notify step
\* changes no counter; and every predicate evaluation of a waiter loads the
\* peer's counter, so the count it finds is the true one, commit included.
C21_CommitThenSignal ==
    /\ [](\A t \in Threads :
            pc[t] = "notify" => OwnPos(t) = Add(start[t], done[t]))
    /\ [][\A t \in Threads :
            /\ (pc[t] = "commit" /\ pc'[t] = "notify")
                    => /\ cond_' = cond_
                       /\ pc'[Peer(t)] = pc[Peer(t)]
            /\ (pc[t] = "notify" /\ pc'[t] # "notify")
                    => /\ read_pos_' = read_pos_
                       /\ write_pos_' = write_pos_
            /\ (pc[t] = "pred" /\ pc'[t] # "pred")
                    => avail'[t] = TrueFor(t)
      ]_vars

\* the consumer, woken before its timeout, has found at its predicate what
\* the producer committed before notifying
C21_Witness ==
    /\ pc["cons"] = "cb"
    /\ path["cons"] = "slow"
    /\ ~expired["cons"]
    /\ avail["cons"] > 0
    /\ pc["prod"] = "ret"
    /\ ret["prod"] > 0

\* C22: the counters overflow modulo 2^WordBits and capacity_ is a smaller
\* power of two: (write_pos_ - read_pos_) mod 2^WordBits is the number of
\* elements produced and not consumed, capacity_ minus it the free space,
\* and mask(position) moves on by the committed count modulo capacity_ in
\* every commit, the ones in which the counter overflows included.
C22_WrapAround ==
    /\ [](/\ Sub(write_pos_, read_pos_) = inFlight
          /\ capacity_ - Sub(write_pos_, read_pos_) = capacity_ - inFlight
          /\ inFlight \in 0 .. capacity_
          /\ capacity_ < SizeMax)
    /\ [][/\ write_pos_' # write_pos_
                => mask(write_pos_')
                       = (mask(write_pos_) + done["prod"]) % capacity_
          /\ read_pos_' # read_pos_
                => mask(read_pos_')
                       = (mask(read_pos_) + done["cons"]) % capacity_
      ]_vars

\* write_pos_ has just overflowed while read_pos_ has not, with data in the
\* buffer
C22_Witness ==
    /\ pc["prod"] = "notify"
    /\ done["prod"] > 0
    /\ write_pos_ < start["prod"]
    /\ write_pos_ < read_pos_
    /\ inFlight > 0

\* C23: outside consume() / produce() and outside clear()'s stores the
\* owner's cached position is its published one, so read_ptr / write_ptr
\* point at mask(published position), and so did the pointer handed to a
\* callback that has not been committed yet.
C23_CachedIsPublished ==
    /\ read_pos_cached_ = read_pos_
    /\ write_pos_cached_ = write_pos_
    /\ \A t \in Threads :
        /\ OwnPtr(t) = mask(OwnPos(t))
        /\ pc[t] = "commit" => offeredAt[t] = mask(OwnPos(t))

\* the consumer is at its callback with a pointer into the second half of
\* the counter range
C23_Witness ==
    /\ pc["cons"] = "cb"
    /\ avail["cons"] > 0
    /\ read_pos_cached_ > capacity_
    /\ read_ptr = mask(read_pos_)

\* C24: a call with elements >= 1 that begins while the true count (true
\* free space) is at least `elements` goes straight to its callback, with a
\* count of at least `elements`, however stale the cached count was.
C24_NoNeedlessBlocking ==
    [][\A t \in Threads :
        (/\ pc[t] = "idle"
         /\ pc'[t] # "idle"
         /\ elements'[t] >= 1
         /\ TrueFor(t) >= elements'[t])
            => /\ pc'[t] = "cb"
               /\ avail'[t] >= elements'[t]
               /\ lock_' = lock_
      ]_vars

\* the consumer's cached count was too small, the reload found enough and
\* the call is at its callback on the fast path
C24_Witness ==
    /\ pc["cons"] = "cb"
    /\ path["cons"] = "fresh"
    /\ elements["cons"] >= 1
    /\ avail["cons"] >= elements["cons"]

\* C25: with a consumer asking for r >= 1 and a producer asking for w >= 1,
\* r + w <= capacity_, the two are never both blocked in the wait of cond_.
C25_NeverBothBlocked ==
    (/\ elements["cons"] >= 1
     /\ elements["prod"] >= 1
     /\ elements["cons"] + elements["prod"] <= capacity_)
        => ~(pc["cons"] = "wait" /\ pc["prod"] = "wait")

\* C26: a slow-path call holds lock_ from the predicate that succeeded
\* through its callback and its commit up to its return; clear() holds
\* lock_ while it stores; so no store of clear() falls between the
\* availability check and the commit of a slow-path transfer.
C26_SlowPathHoldsLock ==
    /\ [](\A t \in Threads :
            (path[t] = "slow" /\ pc[t] \in {"pred", "cb", "commit", "notify"})
                => lock_ = t)
    /\ [](clr # "idle" => lock_ = "clear")
    /\ [][\A t \in Threads :
            (path[t] = "slow" /\ pc[t] \in {"cb", "commit", "notify"})
                => /\ clr' = "idle"
                   /\ (pc'[t] \in {"cb", "commit", "notify"} => lock_' = t)
      ]_vars

\* a slow-path consumer is between its callback and its commit, holding
\* lock_, and no clear() is running
C26_Witness ==
    /\ path["cons"] = "slow"
    /\ pc["cons"] = "commit"
    /\ done["cons"] > 0
    /\ lock_ = "cons"
    /\ sinceClear = "no"
    /\ clr = "idle"

\* the steps of the construction in the order of the code
CtorOrder ==
    <<"new", "validate", "memfd", "ftruncate", "reserve", "first", "second",
      "memset", "built", "destroyed">>

CtorRank(c) == CHOOSE i \in DOMAIN CtorOrder : CtorOrder[i] = c

\* the failure each step throws
ThrownBy(c) ==
    CASE c = "validate" -> {"pagesize", "power"}
      [] c = "memfd" -> {"memfd"}
      [] c = "ftruncate" -> {"ftruncate"}
      [] c = "reserve" -> {"mmap"}
      [] c = "first" -> {"mmap1"}
      [] c = "second" -> {"mmap2"}
      [] OTHER -> {}

\* C27: the construction goes validate, memfd_create, ftruncate, reserve
\* 2 * size, map first half, map second half, one step after the other; a
\* step either succeeds and the next one follows, or it throws its own
\* failure; after a throw nothing else happens (no later step, no retry, no
\* object), and what exists then is what the steps before the failed one
\* made.
C27_ConstructionOrder ==
    /\ [][ctor' # ctor =>
            \/ /\ ctor' = "thrown"
               /\ thrown' \in ThrownBy(ctor)
            \/ /\ ctor # "thrown"
               /\ ctor' # "thrown"
               /\ CtorRank(ctor') = CtorRank(ctor) + 1
               /\ thrown' = "none"
      ]_vars
    /\ [][ctor = "thrown" => UNCHANGED ctorVars]_vars
    /\ [](thrown # "none" <=> ctor = "thrown")
    /\ [](ctor = "thrown" =>
            /\ thrown \in {"pagesize", "power", "memfd"} => mem_fd = "none"
            /\ thrown \in {"pagesize", "power", "memfd", "ftruncate"}
                    => fileLen = 0
            /\ thrown \in {"pagesize", "power", "memfd", "ftruncate", "mmap"}
                    => \A a \in Addresses : vmap[a] = Unmapped
            /\ thrown = "mmap1" => \A a \in Addresses : vmap[a] < 0
            /\ thrown = "mmap2"
                    => \A a \in Addresses : a >= size => vmap[a] < 0)
    /\ [](ctor \in {"built", "destroyed"} => thrown = "none")

\* the mapping of the second half failed after every earlier step succeeded
C27_Witness ==
    /\ ctor = "thrown"
    /\ thrown = "mmap2"
    /\ mem_fd = "open"
    /\ fileLen = size
    /\ vmap[0] = 0
    /\ vmap[size] = Reserved

\* C28: nothing is left behind.  When the construction has thrown, and when
\* an object that was constructed has been destroyed, the memfd is not open
\* any more and no address of the 2 * size range is mapped or reserved.
C28_NothingLeftBehind ==
    ctor \in {"thrown", "destroyed"}
        => /\ mem_fd = "none"
           /\ \A a \in Addresses : vmap[a] = Unmapped

\* C29: a call with elements = 0 goes from its first check to its callback:
\* it is never on the slow path, never holds lock_, is never among the
\* waiters, its steps are always enabled, and when it has returned its
\* callback has run exactly once and the result is the count it reported
\* (which is 0 when 0 was offered).
C29_ZeroMinimum ==
    \A t \in Threads :
        (pc[t] # "idle" /\ elements[t] = 0)
            => /\ pc[t] \in {"cb", "commit", "notify", "ret"}
               /\ path[t] = "cached"
               /\ lock_ # t
               /\ t \notin cond_
               /\ ~expired[t]
               /\ pc[t] # "ret"
                    => IF t = "cons" THEN ENABLED R_Finish
                       ELSE ENABLED W_Finish
               /\ pc[t] \in {"commit", "notify", "ret"}
                    => (cbCalls[t] = 1 /\ done[t] <= offered[t])
               /\ pc[t] = "ret" => ret[t] = done[t]

\* write_at_least(0, ...) on a buffer nobody has used yet: the callback was
\* offered 0 elements and the call has returned 0
C29_Witness ==
    /\ pc["prod"] = "ret"
    /\ elements["prod"] = 0
    /\ cbCalls["prod"] = 1
    /\ offered["prod"] = 0
    /\ ret["prod"] = 0
    /\ write_pos_ = 0
    /\ read_pos_ = 0
    /\ pc["cons"] = "idle"

\* C30: a call with elements > capacity_ never gets to its callback and
\* commits nothing, whatever the other side does; it is on the slow path
\* from its first check on, it returns, and what it returns is -1.
C30_OverCapacity ==
    /\ [](\A t \in Threads :
            (pc[t] # "idle" /\ elements[t] > capacity_)
                => /\ pc[t] \notin {"cb", "commit", "notify"}
                   /\ path[t] = "slow"
                   /\ cbCalls[t] = 0
                   /\ avail[t] < elements[t]
                   /\ OwnPos(t) = start[t]
                   /\ pc[t] = "ret" => ret[t] = TimedOut)
    /\ \A t \in Threads :
            (pc[t] # "idle" /\ elements[t] > capacity_)
                ~> (pc[t] = "ret" /\ ret[t] = TimedOut)

\* the consumer asked for more than the buffer holds; the buffer is full and
\* the call has timed out all the same
C30_Witness ==
    /\ pc["cons"] = "ret"
    /\ elements["cons"] = capacity_ + 1
    /\ ret["cons"] = TimedOut
    /\ TrueCount = capacity_
    /\ cbCalls["cons"] = 0

\* the readStream call in progress has published buffer b and has not
\* returned
WaitingFor(b) ==
    /\ spc["reader"] \in {"pred", "towait", "wait", "reacq", "timeout", "check"}
    /\ buffs0 = b

\* C31: readStream returns the MTU only if, after this call published its
\* buffer, rx_callback converted one transfer into that buffer and reset
\* bufferPtr_ to nullptr; a published buffer is filled by at most one
\* rx_callback invocation.
C31_HandoffCompleted ==
    /\ fills <= 1
    /\ (spc["reader"] = "ret" /\ sret["reader"] = getStreamMTU)
          => (fills = 1 /\ bufferPtr_ = nullptr)

\* C32: rx_callback writes samples only into a buffer whose readStream call
\* is still waiting for it: once a readStream call has returned, no
\* rx_callback invocation writes into the buffer it supplied.
C32_NoWriteAfterReturn ==
    [][(spc["callback"] = "convert" /\ spc'["callback"] = "notify")
          => WaitingFor(bufferPtr_)]_vars

\* readStream has left the mutex, the published pointer and both condition
\* variables alone
HandoffUntouched ==
    UNCHANGED <<bufferPtr_, bufferLock_, bufferReady_, callbackDone_>>

\* C33: readStream with flags != 0 returns SOAPY_SDR_NOT_SUPPORTED and, with
\* flags = 0 and numElems smaller than the MTU, returns 0; in both cases it
\* goes straight to its return: it does not take bufferLock_, does not
\* change bufferPtr_, does not notify and does not wait.
C33_ArgumentGuards ==
    [][/\ (spc["reader"] = "idle" /\ spc'["reader"] # "idle"
              /\ flags'["reader"] # 0)
          => /\ spc'["reader"] = "ret"
             /\ sret'["reader"] = SOAPY_SDR_NOT_SUPPORTED
             /\ HandoffUntouched
       /\ (spc["reader"] = "idle" /\ spc'["reader"] # "idle"
              /\ flags'["reader"] = 0 /\ numElems' < getStreamMTU)
          => /\ spc'["reader"] = "ret"
             /\ sret'["reader"] = 0
             /\ HandoffUntouched
       /\ (spc["reader"] = "ret" /\ spc'["reader"] # "ret"
              /\ (flags["reader"] # 0 \/ numElems < getStreamMTU))
          => /\ spc'["reader"] = "idle"
             /\ HandoffUntouched]_vars

\* a readStream call with a short buffer has returned 0 while rx_callback is
\* blocked waiting for a buffer: the call has not woken it
C33_Witness ==
    /\ spc["reader"] = "ret"
    /\ flags["reader"] = 0
    /\ numElems < getStreamMTU
    /\ sret["reader"] = 0
    /\ "callback" \in bufferReady_
    /\ bufferPtr_ = nullptr

\* C34: once deactivateStream has stopped the device and returned 0, no
\* rx_callback is left blocked waiting for a buffer and no readStream is
\* left blocked waiting for the callback: its notification has released
\* them, they do not have to sit out their own timeout.
C34_NobodyLeftWaiting ==
    stopped => (bufferReady_ = {} /\ callbackDone_ = {})

\* the setters of the device
Setters ==
    {"setGain", "setGainMode", "setIQBalance", "setFrequencyCorrection",
     "setFrequency", "setSampleRate"}

\* what the getter that matches the call o returns now
MatchingGetter(o) ==
    CASE o.op = "setGain" -> getGain(o.dir, o.chan, o.name)
      [] o.op = "setGainMode" -> getGainMode(o.dir, o.chan)
      [] o.op = "setIQBalance" -> getIQBalance(o.dir, o.chan)
      [] o.op = "setFrequencyCorrection" ->
             getFrequencyCorrection(o.dir, o.chan)
      [] o.op = "setFrequency" -> getFrequency(o.dir, o.chan, o.name)
      [] o.op = "setSampleRate" -> getSampleRate(o.dir, o.chan)

\* C35: after a setter called with direction RX and channel 0 whose device
\* call failed, the matching getter returns what it returned before the
\* call; after a setter called with an unsupported direction or channel
\* nothing has changed and no device call was made.
C35_FailureKeepsSetting ==
    lastOp.op \in Setters =>
        /\ (~Unsupported(lastOp.dir, lastOp.chan) /\ lastOp.calls # <<>>
               /\ ~lastOp.ok)
              => MatchingGetter(lastOp) = lastOp.before
        /\ Unsupported(lastOp.dir, lastOp.chan)
              => (lastOp.calls = <<>> /\ Cache = lastOp.pre)

\* C36: after writeSetting("dsp", v), v "true" or "false", whose device call
\* succeeded, readSetting("dsp") returns v; writeSetting and readSetting
\* with another key change no state, and readSetting returns "".
C36_SettingRoundTrip ==
    /\ (lastOp.op = "writeSetting" /\ lastOp.name = "dsp"
           /\ lastOp.value \in {"true", "false"} /\ lastOp.ok)
          => readSetting("dsp") = lastOp.value
    /\ (lastOp.op \in {"writeSetting", "readSetting"} /\ lastOp.name # "dsp")
          => (Cache = lastOp.pre /\ lastOp.calls = <<>>)
    /\ (lastOp.op = "readSetting" /\ lastOp.name # "dsp") => lastOp.out = ""

====
